---- MODULE Spec2Model ----
(***************************************************************************)
(* Model of the mistral-ocr-pipeline orchestrator: page-window planning    *)
(* (main.py process_one_pdf), the partial-record merge (utils/utils.py     *)
(* _merge_values_async, merge_multiple_dicts_async), and the resumable     *)
(* run loop with its two sinks (main.py amain, utils/utils.py).            *)
(***************************************************************************)
EXTENDS Integers, Sequences, FiniteSets, TLC

VARIABLES
    \* ---- merge harness (SpecMerge) ----
    mA, mB,          \* the two partial records fed to the merge
    mRes,            \* results of merge([A,B]), merge([A,B,B]), merge([B,A])
    \* ---- window planner harness (SpecPlan) ----
    pPages, pSize,   \* page count and pages-per-request
    pStart,          \* loop variable `start` of the chunk loop
    pChunks,         \* chunk page lists built so far
    pPc,             \* "begin" | "loop" | "single" | "none" | "done"
    \* ---- the pipeline (Spec) ----
    resume,          \* not OVERWRITE_MD: the resume flag
    pageCount,       \* document -> page count reported by get_pdf_page_count
    run,             \* number of runs of amain started so far
    phase,           \* "idle" | "running" | "ended" | "interrupted" | "crashed"
    index,           \* already_processed
    todo,            \* documents admitted in this run
    dpc,             \* document task: "idle" | "start" | "single" | "windows" | "done"
    dres,            \* document task result
    docChunks,       \* document -> planned page chunks
    wst,             \* document -> per chunk "new" | "held" | "done"
    wout,            \* document -> per chunk outcome of run_all_payloads
    chunkResults,    \* document -> chunk_results, in completion order
    sem,             \* slots of the semaphore currently held
    compQ,           \* document tasks finished and not yet awaited by amain
    ppc,             \* amain loop: "wait" | "csv" | "pq"
    cur,             \* document whose result amain is persisting
    consumed,        \* documents whose future amain has awaited
    csvExists, csvRows,                  \* the row sink
    pqExists, pqCols, pqRows, pqWriter,  \* the columnar sink and its writer
    \* ---- history (read by the claims only) ----
    folded,          \* document -> chunk starts in the order given to the merge
    touched,         \* document -> what this run did for it
    csvAtStart,      \* rows of the row sink when this run started
    everPersisted,   \* documents appended to both sinks in some run with a
                     \* record that the clean-up of the row sink keeps
    abortedBy,       \* document whose task's exception ended the run
    persistFailed,   \* document whose failed sink append ended the run
    \* ---- concurrency gate harness (SpecGate) ----
    gK,              \* MAX_CONCURRENCY as configured
    gHeld,           \* slots of the semaphore currently held
    gWin,            \* window call -> its position and its requests
    gLock,           \* window call whose request holds the rate limiter's lock
    \* ---- rate limiter harness (SpecLimiter) ----
    lClock,          \* monotonic(), in ticks of 0.1 s
    lLast,           \* _AsyncRateLimiter._last
    lLock,           \* holder of _AsyncRateLimiter._lock
    lQueue,          \* callers waiting for the lock, in order of arrival
    lPc,             \* caller: "idle" | "queued" | "locked" | "sleeping" | "stamp" | "granted"
    lWake,           \* caller -> time at which its asyncio.sleep ends
    lArrivals,       \* history: callers in the order in which they called wait()
    lGrants,         \* history: grants in order, with their time
    \* ---- retry harness (SpecRetry) ----
    rReq,            \* request of one window -> attempts, position, history
    rWin,            \* the window call: "pending" | "failure" | "success"
    rRow,            \* the requests whose annotation is in the window's row
    \* ---- columnar sink harness (SpecSchema) ----
    sExists,         \* the Parquet file exists
    sFileSchema,     \* schema stored in the file: column -> type
    sSelfSchema,     \* ParquetAppender._schema
    sWriter,         \* ParquetAppender._writer is open
    sRows,           \* rows in the file
    sAppends,        \* number of append calls made so far
    sEstablished,    \* history: the schema when it was first established
    sLast,           \* history: the last append, its row and what was written
    sBefore,         \* history: rows in the file when the current run started
    \* ---- row sink harness (SpecCsv) ----
    cExists,         \* the CSV file exists
    cLines,          \* lines of the file, the header included
    cAppends,        \* number of append_csv_row calls made so far
    cLast,           \* history: the last append, its row and what it wrote
    cIndex,          \* already_processed of the current run
    cLoad,           \* how the current run got it: "off" | "absent" | "ok" | "failed"
    cDone,           \* the documents whose record the current run has appended
    \* build_plan of the section stripper
    kN,              \* doc.page_count
    kCfg,            \* the StripConfig
    kPlan,           \* the Plan returned: keep_pages and the pages redacted
    kPc,             \* "ready" | "planned"
    \* validate_dataframe_with_llm for one field
    vIsList,         \* cfg.is_list
    vBatchSize,      \* batch_size
    vMeta,           \* meta: the queued rows, (values, sentences) by position
    vDf,             \* df_validated: value and sentence cell of each queued row
    vResults,        \* all_results
    vB,              \* batches done
    vPc,             \* "batching" | "applying" | "done"
    vGiven           \* history: what the chain answered for each queued input

mergeVars == <<mA, mB, mRes>>
planVars == <<pPages, pSize, pStart, pChunks, pPc>>
cfgVars == <<resume, pageCount>>
runVars == <<run, phase, index, todo>>
taskVars == <<dpc, dres, docChunks, wst, wout, chunkResults, sem, compQ, folded>>
loopVars == <<ppc, cur, consumed>>
csvVars == <<csvExists, csvRows>>
pqVars == <<pqExists, pqCols, pqRows, pqWriter>>
histVars == <<touched, csvAtStart, everPersisted, abortedBy, persistFailed>>
pipeVars == <<cfgVars, runVars, taskVars, loopVars, csvVars, pqVars, histVars>>
gateVars == <<gK, gHeld, gWin, gLock>>
retryVars == <<rReq, rWin, rRow>>
schemaVars == <<sExists, sFileSchema, sSelfSchema, sWriter, sRows, sAppends,
                sEstablished, sLast, sBefore>>
csvFileVars == <<cExists, cLines, cAppends, cLast, cIndex, cLoad, cDone>>
stripVars == <<kN, kCfg, kPlan, kPc>>
valVars == <<vIsList, vBatchSize, vMeta, vDf, vResults, vB, vPc, vGiven>>
limVars == <<lClock, lLast, lLock, lQueue, lPc, lWake, lArrivals, lGrants>>
vars == <<mergeVars, planVars, pipeVars, gateVars, limVars, retryVars, schemaVars, csvFileVars, stripVars, valVars>>
othersMerge == <<planVars, pipeVars, gateVars, limVars, retryVars, schemaVars, csvFileVars, stripVars, valVars>>
othersPlan == <<mergeVars, pipeVars, gateVars, limVars, retryVars, schemaVars, csvFileVars, stripVars, valVars>>
othersPipe == <<mergeVars, planVars, gateVars, limVars, retryVars, schemaVars, csvFileVars, stripVars, valVars>>
othersGate == <<mergeVars, planVars, pipeVars, limVars, retryVars, schemaVars, csvFileVars, stripVars, valVars>>
othersLim == <<mergeVars, planVars, pipeVars, gateVars, retryVars, schemaVars, csvFileVars, stripVars, valVars>>
othersRetry == <<mergeVars, planVars, pipeVars, gateVars, limVars, schemaVars, csvFileVars, stripVars, valVars>>
othersSchema == <<mergeVars, planVars, pipeVars, gateVars, limVars, retryVars, csvFileVars, stripVars, valVars>>
othersCsvfile == <<mergeVars, planVars, pipeVars, gateVars, limVars, retryVars, schemaVars, stripVars, valVars>>
othersStrip == <<mergeVars, planVars, pipeVars, gateVars, limVars, retryVars, schemaVars, csvFileVars, valVars>>
othersVal == <<mergeVars, planVars, pipeVars, gateVars, limVars, retryVars, schemaVars, csvFileVars, stripVars>>

----------------------------------------------------------------------------
(* Generic helpers *)

Range(f) == {f[i] : i \in DOMAIN f}

Min2(a, b) == IF a <= b THEN a ELSE b

\* list(range(a, b)): the page indices a, a+1, ..., b-1 in order
PyRange(a, b) == [i \in 1..(IF b > a THEN b - a ELSE 0) |-> a + i - 1]

RECURSIVE SeqsUpTo(_, _)
SeqsUpTo(S, n) ==
    IF n = 0 THEN {<<>>}
    ELSE LET shorter == SeqsUpTo(S, n - 1)
         IN  shorter \cup {Append(s, x) : s \in {t \in shorter : Len(t) = n - 1}, x \in S}

----------------------------------------------------------------------------
(* Values of a partial record.  A Python value is a tagged pair:           *)
(*   None -> [t |-> "null", v |-> 0]                                       *)
(*   str  -> [t |-> "str",  v |-> sequence of characters]                  *)
(*   list -> [t |-> "list", v |-> sequence of values]                      *)
(*   dict -> [t |-> "map",  v |-> function from keys to values]            *)
(* A dict is a function whose DOMAIN is its key set.                       *)

MaxStrLen == 2
MaxListLen == 2

Chars == {" ", "a", "b"}
Whitespace == {" "}

PyNone == [t |-> "null", v |-> 0]
PyStr(s) == [t |-> "str", v |-> s]
PyList(l) == [t |-> "list", v |-> l]
PyMap(d) == [t |-> "map", v |-> d]

EmptyDict == [k \in {} |-> PyNone]

IsScalar(x) == x.t \in {"null", "str"}
IsStr(x) == x.t = "str"
IsList(x) == x.t = "list"
IsMapping(x) == x.t = "map"

\* str.strip(): drop leading and trailing whitespace characters
RECURSIVE LStrip(_)
LStrip(s) ==
    IF s = <<>> THEN s
    ELSE IF Head(s) \in Whitespace THEN LStrip(Tail(s)) ELSE s

RECURSIVE RStrip(_)
RStrip(s) ==
    IF s = <<>> THEN s
    ELSE IF s[Len(s)] \in Whitespace THEN RStrip(SubSeq(s, 1, Len(s) - 1)) ELSE s

Strip(s) == RStrip(LStrip(s))

\* _normalize_str: x.strip() if isinstance(x, str) else x
NormalizeStr(x) == IF IsStr(x) THEN PyStr(Strip(x.v)) ELSE x

\* _is_empty: v in (None, "", [], {})
IsEmpty(x) ==
    \/ x.t = "null"
    \/ x.t = "str" /\ x.v = <<>>
    \/ x.t = "list" /\ x.v = <<>>
    \/ x.t = "map" /\ DOMAIN x.v = {}

\* repr(x) of a list element: a string is quoted, None prints as None
Repr(x) ==
    CASE x.t = "str" -> <<"'">> \o x.v \o <<"'">>
      [] x.t = "null" -> <<"N", "o", "n", "e">>
      [] OTHER -> <<"?">>

\* the seen/out loop of _merge_values_async over the concatenation a + b
RECURSIVE DedupeFrom(_, _, _)
DedupeFrom(l, seen, out) ==
    IF l = <<>> THEN out
    ELSE LET key == Repr(Head(l))
         IN  IF key \in seen
             THEN DedupeFrom(Tail(l), seen, out)
             ELSE DedupeFrom(Tail(l), seen \cup {key}, Append(out, Head(l)))

Dedupe(l) == DedupeFrom(l, {}, <<>>)

RECURSIVE MergeValues(_, _)
RECURSIVE MergeDicts(_)
RECURSIVE FoldDict(_, _, _)

\* mutant of MergeValues: the later value overwrites a non-empty accumulator
MergeValuesLastWins(a0, b0) ==
    LET a == NormalizeStr(a0)
        b == NormalizeStr(b0)
    IN  IF IsEmpty(b) THEN a ELSE b

\* mutant of MergeValues: two different non-empty scalars cancel each other
MergeValuesConflictNull(a0, b0) ==
    LET a == NormalizeStr(a0)
        b == NormalizeStr(b0)
    IN  IF IsEmpty(a) THEN b
        ELSE IF IsList(a) /\ IsList(b) THEN PyList(Dedupe(a.v \o b.v))
        ELSE IF IsMapping(a) /\ IsMapping(b) THEN PyMap(MergeDicts(<<a.v, b.v>>))
        ELSE IF IsEmpty(b) \/ a = b THEN a
        ELSE PyNone

\* mutant of MergeValues: values of different shapes are settled for the
\* incoming one
MergeValuesMismatchIncoming(a0, b0) ==
    LET a == NormalizeStr(a0)
        b == NormalizeStr(b0)
    IN  IF IsEmpty(a) THEN b
        ELSE IF IsList(a) /\ IsList(b) THEN PyList(Dedupe(a.v \o b.v))
        ELSE IF IsMapping(a) /\ IsMapping(b) THEN PyMap(MergeDicts(<<a.v, b.v>>))
        ELSE IF IsScalar(a) /\ IsScalar(b) THEN a
        ELSE b

\* _merge_values_async(a, b)
MergeValues(a0, b0) ==
    LET a == NormalizeStr(a0)
        b == NormalizeStr(b0)
    IN  IF IsEmpty(a) THEN b
        ELSE IF IsList(a) /\ IsList(b) THEN PyList(Dedupe(a.v \o b.v))
        ELSE IF IsMapping(a) /\ IsMapping(b) THEN PyMap(MergeDicts(<<a.v, b.v>>))
        ELSE a

\* mutant of MergeKey: a key absent from the accumulator is not added
MergeKeyPresentOnly(merged, k, v) ==
    IF k \notin DOMAIN merged
    THEN merged
    ELSE [merged EXCEPT ![k] = MergeValues(merged[k], v)]

\* one key of `for k, v in extra.items()`: absent -> take v as is, else merge
MergeKey(merged, k, v) ==
    IF k \notin DOMAIN merged
    THEN [j \in DOMAIN merged \cup {k} |-> IF j = k THEN v ELSE merged[j]]
    ELSE [merged EXCEPT ![k] = MergeValues(merged[k], v)]

\* the inner loop over extra.items(); the keys of one dict are distinct, so the
\* order in which they are visited does not change the result
FoldDict(merged, extra, keys) ==
    IF keys = {} THEN merged
    ELSE LET k == CHOOSE j \in keys : TRUE
         IN  FoldDict(MergeKey(merged, k, extra[k]), extra, keys \ {k})

RECURSIVE FoldDicts(_, _)
FoldDicts(merged, rest) ==
    IF rest = <<>> THEN merged
    ELSE FoldDicts(FoldDict(merged, Head(rest), DOMAIN Head(rest)), Tail(rest))

\* merge_multiple_dicts_async(dicts)
MergeDicts(dicts) ==
    IF dicts = <<>> THEN EmptyDict
    ELSE IF Len(dicts) = 1 THEN dicts[1]
    ELSE FoldDicts(dicts[1], Tail(dicts))

----------------------------------------------------------------------------
(* SpecMerge: the merge applied to every pair of partial records drawn     *)
(* from a bounded universe of values.                                      *)

MergeKeys == {"x", "y"}

Strings == SeqsUpTo(Chars, MaxStrLen)
ListElems == {PyStr(<<"a">>), PyStr(<<"b">>), PyStr(<<"c">>)}
Lists == SeqsUpTo(ListElems, MaxListLen)
Scalars == {PyNone} \cup {PyStr(s) : s \in Strings}
InnerValues == {PyNone, PyStr(<<"a">>), PyStr(<<" ", "a">>), PyStr(<<"b">>),
                PyList(<<PyStr(<<"a">>), PyStr(<<"a">>)>>)}
InnerDicts == {EmptyDict} \cup {[k \in {"k"} |-> iv] : iv \in InnerValues}
                  \cup {[k \in {"j"} |-> PyStr(<<"b", " ">>)]}

\* values the first key may take, and the smaller set kept for the second key
ValuesX == Scalars \cup {PyList(l) : l \in Lists} \cup {PyMap(d) : d \in InnerDicts}
ValuesY == {PyNone, PyStr(<<"a">>), PyList(<<PyStr(<<"b">>)>>)}

DictsOver(K) ==
    UNION {[S -> ValuesX \cup ValuesY] : S \in SUBSET K}

MergeInputs ==
    {d \in DictsOver(MergeKeys) :
        /\ "x" \in DOMAIN d => d["x"] \in ValuesX
        /\ "y" \in DOMAIN d => d["y"] \in ValuesY}

NotRun == [t |-> "notrun", v |-> 0]
Runs == {"AB", "ABB", "BA"}

RunInput(r) ==
    CASE r = "AB" -> <<mA, mB>>
      [] r = "ABB" -> <<mA, mB, mB>>
      [] r = "BA" -> <<mB, mA>>

MergeAB ==
    /\ mRes["AB"] = NotRun
    /\ mRes' = [mRes EXCEPT !["AB"] = PyMap(MergeDicts(<<mA, mB>>))]
    /\ UNCHANGED <<mA, mB>>

MergeABB ==
    /\ mRes["ABB"] = NotRun
    /\ mRes' = [mRes EXCEPT !["ABB"] = PyMap(MergeDicts(<<mA, mB, mB>>))]
    /\ UNCHANGED <<mA, mB>>

MergeBA ==
    /\ mRes["BA"] = NotRun
    /\ mRes' = [mRes EXCEPT !["BA"] = PyMap(MergeDicts(<<mB, mA>>))]
    /\ UNCHANGED <<mA, mB>>

----------------------------------------------------------------------------
(* SpecPlan: the chunk planning of process_one_pdf, one loop iteration per *)
(* step.                                                                   *)

MAX_PAGES_PER_REQ == 8
MaxPages == 20
MaxWindowSize == 8

\* if pages <= 0: return None
PlanNone ==
    /\ pPc = "begin"
    /\ pPages <= 0
    /\ pPc' = "none"
    /\ UNCHANGED <<pPages, pSize, pStart, pChunks>>

\* if pages <= MAX_PAGES_PER_REQ: one chunk list(range(pages))
PlanSingle ==
    /\ pPc = "begin"
    /\ pPages > 0
    /\ pPages <= pSize
    /\ pChunks' = <<PyRange(0, pPages)>>
    /\ pPc' = "single"
    /\ UNCHANGED <<pPages, pSize, pStart>>

PlanEnterLoop ==
    /\ pPc = "begin"
    /\ pPages > pSize
    /\ pPc' = "loop"
    /\ UNCHANGED <<pPages, pSize, pStart, pChunks>>

\* mutant of ChunkEnd: the last chunk is not clipped to the page count
ChunkEndUnclipped(start, size, n) == start + size
\* end = min(start + MAX_PAGES_PER_REQ, n)
ChunkEnd(start, size, n) == Min2(start + size, n)

\* for start in range(0, n, MAX_PAGES_PER_REQ): append list(range(start, end))
PlanLoopStep ==
    /\ pPc = "loop"
    /\ pStart < pPages
    /\ pChunks' = Append(pChunks, PyRange(pStart, ChunkEnd(pStart, pSize, pPages)))
    /\ pStart' = pStart + pSize
    /\ UNCHANGED <<pPages, pSize, pPc>>

PlanLoopExit ==
    /\ pPc = "loop"
    /\ pStart >= pPages
    /\ pPc' = "done"
    /\ UNCHANGED <<pPages, pSize, pStart, pChunks>>

\* the whole plan as a function of the page count (used by the pipeline)
RECURSIVE ChunksFrom(_, _, _)
ChunksFrom(start, size, n) ==
    IF start >= n THEN <<>>
    ELSE <<PyRange(start, ChunkEnd(start, size, n))>>
         \o ChunksFrom(start + size, size, n)

PlanChunks(n, size) ==
    IF n <= 0 THEN <<>>
    ELSE IF n <= size THEN <<PyRange(0, n)>>
    ELSE ChunksFrom(0, size, n)

----------------------------------------------------------------------------
(* The pipeline: amain, process_one_pdf, process_one_pdf_chunk, and the    *)
(* two sinks written by append_csv_row and ParquetAppender.                *)

MAX_CONCURRENCY == 3
MaxRuns == 2

Docs == {"d1", "d2"}
PageCounts == {0, 5, 12}

\* The documents are interchangeable: a run with the page counts of two
\* documents exchanged is the same run with the documents renamed. The page
\* counts are therefore taken in non-decreasing order along DocOrder.
DocOrder == <<"d1", "d2">>
PageCountChoices ==
    {f \in [Docs -> PageCounts] :
        \A i, j \in DOMAIN DocOrder : i < j => f[DocOrder[i]] <= f[DocOrder[j]]}

SRC == "__source_file__"
JOURNAL == "Journal"

\* file_name_sha1(name): the digest of the file name, a string
FileNameSha1(d) == PyStr(<<"#", d>>)

\* what run_all_payloads does for one chunk: it raises (a request ran out of
\* retries) or returns the merged annotations, {} when no schema answered
Raised == [t |-> "raise", v |-> EmptyDict]
Returned(d) == [t |-> "dict", v |-> d]
Pending == [t |-> "pending", v |-> EmptyDict]
JournalDict(s) == [k \in {JOURNAL} |-> PyStr(s)]
WindowOutcomes ==
    {Raised, Returned(EmptyDict),
     Returned(JournalDict(<<"N">>)), Returned(JournalDict(<<"7">>))}

\* result of a process_one_pdf task
NoResult == [t |-> "pending", v |-> EmptyDict]
ResNone == [t |-> "none", v |-> EmptyDict]
ResExc == [t |-> "exc", v |-> EmptyDict]
ResRow(d) == [t |-> "row", v |-> d]

NoDoc == "-"

\* chunk_results.sort(key=lambda d: d["__chunk_start__"]): a stable sort
RECURSIVE InsertByStart(_, _)
InsertByStart(s, r) ==
    IF s = <<>> THEN <<r>>
    ELSE IF r.start < Head(s).start THEN <<r>> \o s
    ELSE <<Head(s)>> \o InsertByStart(Tail(s), r)

RECURSIVE SortedByStart(_)
SortedByStart(l) ==
    IF l = <<>> THEN <<>>
    ELSE InsertByStart(SortedByStart(SubSeq(l, 1, Len(l) - 1)), l[Len(l)])

\* mutant of SortByStart: the results stay in completion order
CompletionOrder(l) == l
SortByStart(l) == SortedByStart(l)

\* merged["__source_file__"] = str(file_name_sha1(pdf_path.name))
AttachSource(row, d) ==
    [k \in DOMAIN row \cup {SRC} |-> IF k = SRC THEN FileNameSha1(d) ELSE row[k]]

\* mutant of MergedResult: a document with a failed chunk is given up
MergedResultAbortOnFailure(d, results, nChunks) ==
    IF Len(results) < nChunks THEN ResNone
    ELSE LET sorted == SortByStart(results)
             rows == [i \in DOMAIN sorted |-> sorted[i].row]
         IN  ResRow(AttachSource(MergeDicts(rows), d))

\* process_one_pdf, lines 152-162: sort, strip the helper key, merge, attach
MergedResult(d, results, nChunks) ==
    LET sorted == SortByStart(results)
        rows == [i \in DOMAIN sorted |-> sorted[i].row]
    IN  ResRow(AttachSource(MergeDicts(rows), d))

\* process_one_pdf, lines 125-130: result.items() raises on None
SingleResult(d, outcome) ==
    IF outcome = Raised THEN ResExc ELSE ResRow(AttachSource(outcome.v, d))

(* ---- the row sink ---- *)

CsvNaN == [t |-> "nan", v |-> <<>>]
CsvText(s) == [t |-> "text", v |-> s]
Digits == {"7"}

\* one cell of pd.DataFrame([row], columns=cols).to_csv read back by read_csv:
\* a missing key, None and "" all come back as NaN
CsvCell(row, col) ==
    IF col \notin DOMAIN row THEN CsvNaN
    ELSE IF ~IsStr(row[col]) \/ row[col].v = <<>> THEN CsvNaN
    ELSE CsvText(row[col].v)

CsvRow(row) == [src |-> CsvCell(row, SRC), journal |-> CsvCell(row, JOURNAL)]

\* is_numeric of drop_empty_rows: float(str(x).strip()) succeeds; str(NaN) is
\* "nan", which float() accepts
IsNumeric(cell) ==
    \/ cell.t = "nan"
    \/ /\ cell.t = "text"
       /\ Strip(cell.v) # <<>>
       /\ \A i \in DOMAIN Strip(cell.v) : Strip(cell.v)[i] \in Digits

\* drop_empty_rows: dropna on the identity, then drop numeric Journal rows
DropEmptyRows(rows) ==
    SelectSeq(rows, LAMBDA r : r.src.t # "nan" /\ ~IsNumeric(r.journal))

\* set(df["__source_file__"].dropna().astype(str))
IdentityColumn(rows) ==
    {PyStr(rows[i].src.v) : i \in {j \in DOMAIN rows : rows[j].src.t # "nan"}}

\* mutant of Admitted: every document is admitted whatever the index says
AdmitAll(idx) == Docs
\* todo = [p for p in list_of_pdfs if file_name_sha1(p.name) not in already_processed]
Admitted(idx) == {d \in Docs : FileNameSha1(d) \notin idx}

(* ---- the columnar sink ---- *)

PqNull == [t |-> "null", v |-> <<>>]

PqCell(row, col) ==
    IF col \notin DOMAIN row THEN PqNull
    ELSE IF ~IsStr(row[col]) THEN PqNull
    ELSE CsvText(row[col].v)

\* table_cast_like: the columns of the schema, nulls for the missing ones
CastLike(row, cols) == [c \in cols |-> PqCell(row, c)]

(* ---- actions ---- *)

IdleTasks ==
    /\ dpc' = [d \in Docs |-> "idle"]
    /\ dres' = [d \in Docs |-> NoResult]
    /\ docChunks' = [d \in Docs |-> <<>>]
    /\ wst' = [d \in Docs |-> <<>>]
    /\ wout' = [d \in Docs |-> <<>>]
    /\ chunkResults' = [d \in Docs |-> <<>>]
    /\ folded' = [d \in Docs |-> <<>>]
    /\ sem' = 0
    /\ compQ' = <<>>
    /\ ppc' = "wait"
    /\ cur' = NoDoc
    /\ consumed' = {}
    /\ touched' = [d \in Docs |-> {}]

\* the process ends (normally, by an exception or by an interrupt); the with
\* block closes the Parquet writer on the way out
EndRun(how) ==
    /\ phase' = how
    /\ index' = {}
    /\ todo' = {}
    /\ pqWriter' = FALSE
    /\ IdleTasks
    /\ UNCHANGED <<cfgVars, run, csvVars, pqExists, pqCols, pqRows,
                   csvAtStart, everPersisted>>

\* amain up to the launch of the tasks: load the index, filter the documents
StartRun ==
    /\ phase # "running"
    /\ run < MaxRuns
    /\ run' = run + 1
    /\ phase' = "running"
    /\ csvAtStart' = csvRows
    /\ abortedBy' = NoDoc
    /\ persistFailed' = NoDoc
    /\ IF resume /\ csvExists
       THEN /\ csvRows' = DropEmptyRows(csvRows)
            /\ index' = IdentityColumn(csvRows')
       ELSE /\ csvRows' = csvRows
            /\ index' = {}
    /\ todo' = Admitted(index')
    /\ dpc' = [d \in Docs |-> IF d \in todo' THEN "start" ELSE "idle"]
    /\ UNCHANGED <<cfgVars, csvExists, pqVars, everPersisted, loopVars, touched,
                   dres, docChunks, wst, wout, chunkResults, sem, compQ, folded>>

\* a process_one_pdf task returns `res`
Return(d, res) ==
    /\ dres' = [dres EXCEPT ![d] = res]
    /\ dpc' = [dpc EXCEPT ![d] = "done"]
    /\ compQ' = Append(compQ, d)

\* mutant of NoPages: only a negative page count ends the task
NoPagesStrict(n) == n < 0
\* process_one_pdf, line 116: if pages <= 0: return None
NoPages(n) == n <= 0

\* process_one_pdf up to the launch of its chunk calls
DocStart(d) ==
    /\ phase = "running"
    /\ dpc[d] = "start"
    /\ \/ /\ Return(d, ResExc)      \* get_pdf_page_count raised
          /\ touched' = [touched EXCEPT ![d] = @ \cup {"read"}]
          /\ UNCHANGED <<docChunks, wst, wout>>
       \/ /\ NoPages(pageCount[d])
          /\ Return(d, ResNone)
          /\ touched' = [touched EXCEPT ![d] = @ \cup {"read", "counted"}]
          /\ UNCHANGED <<docChunks, wst, wout>>
       \/ /\ ~NoPages(pageCount[d])
          /\ Return(d, ResNone)      \* encode_pdf returned None
          /\ touched' = [touched EXCEPT ![d] = @ \cup {"read", "counted"}]
          /\ UNCHANGED <<docChunks, wst, wout>>
       \/ /\ ~NoPages(pageCount[d])
          /\ docChunks' = [docChunks EXCEPT ![d] = PlanChunks(pageCount[d], MAX_PAGES_PER_REQ)]
          /\ wst' = [wst EXCEPT ![d] = [i \in DOMAIN docChunks'[d] |-> "new"]]
          /\ wout' = [wout EXCEPT ![d] = [i \in DOMAIN docChunks'[d] |-> Pending]]
          /\ dpc' = [dpc EXCEPT ![d] =
                        IF pageCount[d] <= MAX_PAGES_PER_REQ THEN "single" ELSE "windows"]
          /\ touched' = [touched EXCEPT ![d] = @ \cup {"read", "counted", "planned"}]
          /\ UNCHANGED <<dres, compQ>>
    /\ UNCHANGED <<cfgVars, runVars, loopVars, csvVars, pqVars, chunkResults, sem,
                   folded, csvAtStart, everPersisted, abortedBy, persistFailed>>

\* process_one_pdf_chunk: async with sem, then the call is issued
Acquire(d, w) ==
    /\ phase = "running"
    /\ dpc[d] \in {"single", "windows"}
    /\ w \in DOMAIN wst[d]
    /\ wst[d][w] = "new"
    /\ sem < MAX_CONCURRENCY
    /\ sem' = sem + 1
    /\ wst' = [wst EXCEPT ![d][w] = "held"]
    /\ touched' = [touched EXCEPT ![d] = @ \cup {"called"}]
    /\ UNCHANGED <<cfgVars, runVars, loopVars, csvVars, pqVars, dpc, dres, docChunks,
                   wout, chunkResults, compQ, folded, csvAtStart, everPersisted,
                   abortedBy, persistFailed>>

\* process_one_pdf_chunk: run_all_payloads ends with outcome o, the slot is
\* released, and a result that is not None joins chunk_results
Complete(d, w, o) ==
    /\ phase = "running"
    /\ w \in DOMAIN wst[d]
    /\ wst[d][w] = "held"
    /\ sem' = sem - 1
    /\ wst' = [wst EXCEPT ![d][w] = "done"]
    /\ wout' = [wout EXCEPT ![d][w] = o]
    /\ chunkResults' =
          IF dpc[d] = "windows" /\ o # Raised
          THEN [chunkResults EXCEPT ![d] =
                   Append(@, [start |-> docChunks[d][w][1], row |-> o.v])]
          ELSE chunkResults
    /\ UNCHANGED <<cfgVars, runVars, loopVars, csvVars, pqVars, dpc, dres, docChunks,
                   compQ, folded, histVars>>

\* process_one_pdf after its chunk calls: the single-chunk or the merged result
DocFinish(d) ==
    /\ phase = "running"
    /\ \/ /\ dpc[d] = "single"
          /\ wst[d][1] = "done"
          /\ Return(d, SingleResult(d, wout[d][1]))
          /\ UNCHANGED folded
       \/ /\ dpc[d] = "windows"
          /\ \A w \in DOMAIN wst[d] : wst[d][w] = "done"
          /\ Return(d, MergedResult(d, chunkResults[d], Len(docChunks[d])))
          /\ folded' = [folded EXCEPT ![d] =
                           [i \in DOMAIN chunkResults[d] |->
                               SortByStart(chunkResults[d])[i].start]]
    /\ UNCHANGED <<cfgVars, runVars, loopVars, csvVars, pqVars, docChunks, wst, wout,
                   chunkResults, sem, histVars>>

\* mutant of FirstSink: the loop body starts with the columnar append
FirstSinkPq == "pq"
\* amain, lines 218-221: the CSV append is awaited first, then the Parquet one
FirstSink == "csv"

\* amain: result = await fut, for the next task to finish
Await ==
    /\ phase = "running"
    /\ ppc = "wait"
    /\ compQ # <<>>
    /\ LET d == Head(compQ)
       IN  \/ /\ dres[d].t = "row"
              /\ cur' = d
              /\ ppc' = FirstSink
              /\ consumed' = consumed \cup {d}
              /\ compQ' = Tail(compQ)
              /\ UNCHANGED <<cfgVars, runVars, csvVars, pqVars, dpc, dres, docChunks,
                             wst, wout, chunkResults, sem, folded, histVars>>
           \/ /\ dres[d].t = "none"
              /\ consumed' = consumed \cup {d}
              /\ compQ' = Tail(compQ)
              /\ UNCHANGED <<cfgVars, runVars, csvVars, pqVars, dpc, dres, docChunks,
                             wst, wout, chunkResults, sem, folded, histVars, ppc, cur>>
           \/ /\ dres[d].t = "exc"
              /\ abortedBy' = d
              /\ UNCHANGED persistFailed
              /\ EndRun("crashed")

\* append_csv_row(csv_path, result, columns)
AppendCsv ==
    /\ phase = "running"
    /\ ppc = "csv"
    /\ csvRows' = Append(csvRows, CsvRow(dres[cur].v))
    /\ csvExists' = TRUE
    /\ ppc' = "pq"
    /\ touched' = [touched EXCEPT ![cur] = @ \cup {"csv"}]
    /\ UNCHANGED <<cfgVars, runVars, taskVars, pqVars, cur, consumed,
                   csvAtStart, everPersisted, abortedBy, persistFailed>>

\* append_csv_row: DataFrame or to_csv raises (the file cannot be written); the
\* error is logged and raised again, and nothing is added to the file
AppendCsvRaises ==
    /\ phase = "running"
    /\ ppc = "csv"
    /\ persistFailed' = cur
    /\ UNCHANGED abortedBy
    /\ EndRun("crashed")

\* ParquetAppender.append(result)
AppendPq ==
    /\ phase = "running"
    /\ ppc = "pq"
    /\ \/ /\ pqWriter
          /\ pqRows' = Append(pqRows, CastLike(dres[cur].v, pqCols))
          /\ UNCHANGED <<pqExists, pqCols, pqWriter>>
       \/ /\ ~pqWriter
          /\ ~pqExists
          /\ pqCols' = DOMAIN dres[cur].v
          /\ pqRows' = <<CastLike(dres[cur].v, pqCols')>>
          /\ pqExists' = TRUE
          /\ pqWriter' = TRUE
       \/ /\ ~pqWriter
          /\ pqExists
          /\ JOURNAL \in pqCols
          \* drop_empty_rows_pq, the schema is read back, and ParquetWriter
          \* opens the existing path for writing, which empties the file
          /\ pqRows' = <<CastLike(dres[cur].v, pqCols)>>
          /\ pqWriter' = TRUE
          /\ UNCHANGED <<pqExists, pqCols>>
    /\ ppc' = "wait"
    /\ cur' = NoDoc
    /\ touched' = [touched EXCEPT ![cur] = @ \cup {"pq"}]
    /\ everPersisted' =
          IF DropEmptyRows(<<CsvRow(dres[cur].v)>>) # <<>>
          THEN everPersisted \cup {cur}
          ELSE everPersisted
    /\ UNCHANGED <<cfgVars, runVars, taskVars, csvVars, consumed, csvAtStart,
                   abortedBy, persistFailed>>

\* ParquetAppender.append: drop_empty_rows_pq reads table["Journal"], which
\* raises when the file has no such column
AppendPqRaises ==
    /\ phase = "running"
    /\ ppc = "pq"
    /\ ~pqWriter
    /\ pqExists
    /\ JOURNAL \notin pqCols
    /\ persistFailed' = cur
    /\ UNCHANGED abortedBy
    /\ EndRun("crashed")

\* amain: the loop over as_completed(tasks) is exhausted
FinishRun ==
    /\ phase = "running"
    /\ ppc = "wait"
    /\ consumed = todo
    /\ UNCHANGED <<abortedBy, persistFailed>>
    /\ EndRun("ended")

\* the process is interrupted (KeyboardInterrupt) at any point of the run
Interrupt ==
    /\ phase = "running"
    /\ UNCHANGED <<abortedBy, persistFailed>>
    /\ EndRun("interrupted")

----------------------------------------------------------------------------
(* SpecGate: the semaphore of amain around the window calls of             *)
(* process_one_pdf_chunk, and the requests that run_all_payloads issues    *)
(* for each window call.  The requests of one window are interchangeable,  *)
(* so a window carries the number of its requests at each stage.           *)

MaxGateK == 2
MaxGateWindows == 2
PayloadClasses == 4

GateWindows == 1..MaxGateWindows
NoWindow == 0

\* a window call: pc is "new" (not yet past `async with sem`), "held",
\* "done" (returned a dict), "failed" (returned None) or "cancelled";
\* atLimiter and inFlight count its requests that wait for the rate limiter
\* and that are running in a worker thread; raised says that one of its
\* requests re-raised after its last retry
NewWindow == [pc |-> "new", atLimiter |-> 0, inFlight |-> 0, raised |-> FALSE]

\* requests of all windows that are running in a worker thread
RECURSIVE SumInFlight(_)
SumInFlight(W) ==
    IF W = {} THEN 0
    ELSE LET w == CHOOSE x \in W : TRUE
         IN  gWin[w].inFlight + SumInFlight(W \ {w})

InFlight == SumInFlight(GateWindows)

\* mutant of CanAcquire: the semaphore admits every caller
CanAcquireAlways(held, k) == TRUE
\* asyncio.Semaphore(MAX_CONCURRENCY): acquire passes while a slot is free
CanAcquire(held, k) == held < k

\* mutant of Released: the slot is given back only by a call that succeeded
ReleasedOnSuccess(held, how) == IF how = "done" THEN held - 1 ELSE held
\* leaving `async with sem` gives the slot back, however the block is left
Released(held, how) == held - 1

\* async with sem: the slot is taken and run_all_payloads starts one
\* get_annotation_async per payload class, each waiting for the rate limiter
GateAcquire(w) ==
    /\ gWin[w].pc = "new"
    /\ CanAcquire(gHeld, gK)
    /\ gHeld' = gHeld + 1
    /\ gWin' = [gWin EXCEPT ![w] = [pc |-> "held", atLimiter |-> PayloadClasses,
                                    inFlight |-> 0, raised |-> FALSE]]
    /\ UNCHANGED <<gK, gLock>>

\* mutant of LockOnLeave: the lock stays with the request that was granted
LockKept(w) == w
\* _AsyncRateLimiter.wait: leaving `async with self._lock` frees the lock
LockOnLeave(w) == NoWindow

\* _AsyncRateLimiter.wait: a request of the window enters `async with
\* self._lock`; it keeps the lock while it sleeps
GateLimiterEnter(w) ==
    /\ gWin[w].atLimiter > 0
    /\ gLock = NoWindow
    /\ gLock' = w
    /\ UNCHANGED <<gK, gHeld, gWin>>

\* get_annotation_async: wait() returns for the request that holds the lock,
\* the lock is freed and the request runs in a worker thread
GateDispatch(w) ==
    /\ gLock = w
    /\ gWin[w].atLimiter > 0
    /\ gLock' = LockOnLeave(w)
    /\ gWin' = [gWin EXCEPT ![w].atLimiter = @ - 1, ![w].inFlight = @ + 1]
    /\ UNCHANGED <<gK, gHeld>>

\* _get_annotation_sync ends: it returns a response or None, or it re-raises
\* after the last retry
GateRequestEnds(w, raises) ==
    /\ gWin[w].inFlight > 0
    /\ gWin' = [gWin EXCEPT ![w].inFlight = @ - 1,
                            ![w].raised = (@ \/ raises) /\ gWin[w].pc = "held"]
    /\ UNCHANGED <<gK, gHeld, gLock>>

\* process_one_pdf_chunk leaves the `async with` block: gather raised (the
\* other requests keep running) and None is returned, or every request has
\* ended and the row is returned
GateExit(w) ==
    /\ gWin[w].pc = "held"
    /\ gWin[w].raised \/ (gWin[w].atLimiter = 0 /\ gWin[w].inFlight = 0)
    /\ LET how == IF gWin[w].raised THEN "failed" ELSE "done"
       IN  /\ gWin' = [gWin EXCEPT ![w].pc = how, ![w].raised = FALSE]
           /\ gHeld' = Released(gHeld, how)
    /\ UNCHANGED <<gK, gLock>>

\* the window task is cancelled: a held slot is given back, the requests that
\* wait for the rate limiter are cancelled, the worker threads run on
GateCancel(w) ==
    /\ gWin[w].pc \in {"new", "held"}
    /\ gWin' = [gWin EXCEPT ![w].pc = "cancelled", ![w].atLimiter = 0,
                            ![w].raised = FALSE]
    /\ gHeld' = IF gWin[w].pc = "held" THEN Released(gHeld, "cancelled") ELSE gHeld
    /\ gLock' = IF gLock = w THEN NoWindow ELSE gLock
    /\ UNCHANGED gK

----------------------------------------------------------------------------
(* SpecLimiter: _AsyncRateLimiter.wait() called by concurrent callers, with *)
(* a discrete monotonic clock of 0.1 s ticks.                               *)

MaxCallers == 3
MaxClock == 8
\* _interval = 1.0 / max(rps, 1e-6) with _OCR_RPS = 5: 0.2 s, two ticks
LimInterval == 2

LimCallers == 1..MaxCallers
NoCaller == 0

Max2(a, b) == IF a >= b THEN a ELSE b

\* mutant of WaitFor: the limiter never makes a caller sleep
WaitForNothing(last, now) == 0
\* wait = max(0.0, self._last + self._interval - now)
WaitFor(last, now) == Max2(0, last + LimInterval - now)

\* mutant of Handover: the lock goes to the caller that arrived last
HandoverLast(q) == [next |-> q[Len(q)], rest |-> SubSeq(q, 1, Len(q) - 1)]
\* asyncio.Lock.release wakes the waiter that has waited longest
Handover(q) == [next |-> Head(q), rest |-> Tail(q)]

\* the monotonic clock advances
LimTick ==
    /\ lClock < MaxClock
    /\ lClock' = lClock + 1
    /\ UNCHANGED <<lLast, lLock, lQueue, lPc, lWake, lArrivals, lGrants>>

\* wait() is called: `async with self._lock` takes a free lock with no
\* waiter at once, else the caller joins the waiters
LimArrive(c) ==
    /\ lPc[c] = "idle"
    /\ lArrivals' = Append(lArrivals, c)
    /\ IF lLock = NoCaller /\ lQueue = <<>>
       THEN /\ lLock' = c
            /\ lPc' = [lPc EXCEPT ![c] = "locked"]
            /\ UNCHANGED lQueue
       ELSE /\ lQueue' = Append(lQueue, c)
            /\ lPc' = [lPc EXCEPT ![c] = "queued"]
            /\ UNCHANGED lLock
    /\ UNCHANGED <<lClock, lLast, lWake, lGrants>>

\* now = monotonic(); wait = ...; if wait > 0: await asyncio.sleep(wait)
LimCompute(c) ==
    /\ lPc[c] = "locked"
    /\ LET w == WaitFor(lLast, lClock)
       IN  IF w > 0
           THEN /\ lPc' = [lPc EXCEPT ![c] = "sleeping"]
                /\ lWake' = [lWake EXCEPT ![c] = lClock + w]
           ELSE /\ lPc' = [lPc EXCEPT ![c] = "stamp"]
                /\ UNCHANGED lWake
    /\ UNCHANGED <<lClock, lLast, lLock, lQueue, lArrivals, lGrants>>

\* asyncio.sleep(wait) returns, not before the time asked for
LimWake(c) ==
    /\ lPc[c] = "sleeping"
    /\ lClock >= lWake[c]
    /\ lPc' = [lPc EXCEPT ![c] = "stamp"]
    /\ UNCHANGED <<lClock, lLast, lLock, lQueue, lWake, lArrivals, lGrants>>

\* self._last = monotonic(); the lock is released and wait() returns
LimStamp(c) ==
    /\ lPc[c] = "stamp"
    /\ lLast' = lClock
    /\ lGrants' = Append(lGrants, [who |-> c, at |-> lClock])
    /\ IF lQueue = <<>>
       THEN /\ lLock' = NoCaller
            /\ lPc' = [lPc EXCEPT ![c] = "granted"]
            /\ UNCHANGED lQueue
       ELSE /\ lLock' = Handover(lQueue).next
            /\ lQueue' = Handover(lQueue).rest
            /\ lPc' = [lPc EXCEPT ![c] = "granted", ![Handover(lQueue).next] = "locked"]
    /\ UNCHANGED <<lClock, lWake, lArrivals>>

----------------------------------------------------------------------------
(* SpecRetry: the requests of one window call, each one _get_annotation_sync *)
(* under its tenacity retry decorator, against a service that answers or    *)
(* fails in any way at every attempt.                                       *)

\* stop_after_attempt(5), wait_exponential(multiplier=1, min=4, max=60)
MaxAttemptNumber == 5
WaitMultiplier == 1
WaitMin == 4
WaitMax == 60

Requests == 1..PayloadClasses

\* str(e).lower() as a sequence of words, and `phrase in txt`
Lower(w) == IF w = "Rate" THEN "rate" ELSE IF w = "Quota" THEN "quota" ELSE w
LowerAll(txt) == [i \in DOMAIN txt |-> Lower(txt[i])]
Contains(txt, phrase) ==
    \E i \in 1..(Len(txt) - Len(phrase) + 1) :
        SubSeq(txt, i, i + Len(phrase) - 1) = phrase

\* the errors the service may answer with: status_code (0 when the exception
\* has none) and message
ErrorTexts ==
    {<<"Rate", "limit", "exceeded">>, <<"Quota", "exhausted">>,
     <<"too", "many", "requests">>, <<"server", "error">>, <<"too", "many", "pages">>}
ServiceErrors == [status_code : {0, 429, 500}, txt : ErrorTexts]
ServiceOk == [status_code |-> 200, txt |-> <<>>]

\* _is_rate_limit(e)
IsRateLimit(e) ==
    LET txt == LowerAll(e.txt)
    IN  \/ e.status_code = 429
        \/ Contains(txt, <<"rate">>)
        \/ Contains(txt, <<"quota">>)
        \/ Contains(txt, <<"too", "many", "requests">>)

\* mutant of Escapes: every error is swallowed and None is returned
EscapesNever(e) == FALSE
\* except Exception as e: if _is_rate_limit(e): raise
Escapes(e) == IsRateLimit(e)

\* retry=retry_if_exception(_is_rate_limit)
RetryIf(e) == IsRateLimit(e)

\* mutant of StopAfterAttempt: retrying never stops
NeverStop(n) == FALSE
\* stop=stop_after_attempt(5)
StopAfterAttempt(n) == n >= MaxAttemptNumber

\* mutant of WaitExponential: the delay is not clamped to the floor and ceiling
WaitUnclamped(n) == WaitMultiplier * 2 ^ (n - 1)
\* wait_exponential: multiplier * 2 ** (attempt_number - 1), clamped to [min, max]
WaitExponential(n) == Max2(WaitMin, Min2(WaitMultiplier * 2 ^ (n - 1), WaitMax))

\* a request: attempts made, position ("new" | "ready" | "backoff" | "ok" |
\* "none" | "raised"), the grants of the rate limiter it obtained, the delays
\* slept so far, and the history of its attempts ("ok" | "retryable" |
\* "permanent")
NewRequest == [att |-> 0, st |-> "new", grants |-> 0, delays |-> <<>>, hist |-> <<>>]

\* get_annotation_async: await _rate_limiter.wait(), once, before the call
\* with its retries is handed to a worker thread
RetryGrant(q) ==
    /\ rReq[q].st = "new"
    /\ rReq' = [rReq EXCEPT ![q].st = "ready", ![q].grants = @ + 1]
    /\ UNCHANGED <<rWin, rRow>>

\* one attempt: client.ocr.process answers with `out`
RetryAttempt(q, out) ==
    /\ rReq[q].st \in {"ready", "backoff"}
    /\ LET n == rReq[q].att + 1
           kind == IF out = ServiceOk THEN "ok"
                   ELSE IF IsRateLimit(out) THEN "retryable" ELSE "permanent"
           retried == out # ServiceOk /\ Escapes(out) /\ RetryIf(out)
                         /\ ~StopAfterAttempt(n)
           st == IF out = ServiceOk THEN "ok"
                 ELSE IF ~Escapes(out) THEN "none"
                 ELSE IF retried THEN "backoff"
                 ELSE "raised"
       IN  rReq' = [rReq EXCEPT ![q] =
                      [att |-> n, st |-> st, grants |-> @.grants,
                       delays |-> IF retried THEN Append(@.delays, WaitExponential(n))
                                  ELSE @.delays,
                       hist |-> Append(@.hist, kind)]]
    /\ UNCHANGED <<rWin, rRow>>

\* asyncio.gather re-raises the first exception and process_one_pdf_chunk
\* returns None for the window
RetryWindowFails ==
    /\ rWin = "pending"
    /\ \E q \in Requests : rReq[q].st = "raised"
    /\ rWin' = "failure"
    /\ UNCHANGED <<rReq, rRow>>

\* mutant of Contributes: the None of a failed request is merged as well
ContributesAll(st) == TRUE
\* run_all_payloads: `if not resp: continue` skips a request that returned
\* None; the annotation of every other response is merged into the row
Contributes(st) == st = "ok"

\* every request returned (a response or None): the window returns its row
RetryWindowReturns ==
    /\ rWin = "pending"
    /\ \A q \in Requests : rReq[q].st \in {"ok", "none"}
    /\ rWin' = "success"
    /\ rRow' = {q \in Requests : Contributes(rReq[q].st)}
    /\ UNCHANGED rReq

----------------------------------------------------------------------------
(* SpecSchema: ParquetAppender.append and table_cast_like with typed        *)
(* columns, over appends of any rows and restarts of the process.           *)

MaxAppends == 3

EXTRA == "Extra"

\* the rows handed to append: the identity, a Journal that is absent, None, a
\* string or a list, and possibly a key outside the schema
SchemaRowsOver(K) == UNION {[S -> {PyNone, PyStr(<<"N">>), PyList(<<PyStr(<<"a">>)>>)}] : S \in SUBSET K}
SchemaRows ==
    {row \in SchemaRowsOver({SRC, JOURNAL, EXTRA}) :
        /\ SRC \in DOMAIN row
        /\ row[SRC] = PyStr(<<"N">>)
        /\ EXTRA \in DOMAIN row => row[EXTRA] = PyStr(<<"N">>)}

NoSchema == [t |-> "noschema"]
NoAppend == [t |-> "noappend"]
CastError == [t |-> "casterror"]

\* Arrow type that pa.Table.from_pandas infers for a one-row column
TypeOf(x) ==
    CASE x.t = "str" -> "string"
      [] x.t = "list" -> "list"
      [] OTHER -> "null"

\* pa.Table.from_pandas(pd.DataFrame([row])): its schema and its row
TableSchema(row) == [t |-> "schema", cols |-> [c \in DOMAIN row |-> TypeOf(row[c])]]
TableRow(row) == [c \in DOMAIN row |-> IF row[c].t = "null" THEN PqNull ELSE row[c]]

\* col.cast(field.type) of a one-row column: a null casts to every type, a
\* value keeps its type, a string and a list do not cast into each other
CanCast(x, type) == TypeOf(x) = "null" \/ TypeOf(x) = type

\* one column of table_cast_like: nulls for a missing column and for a null
\* target type, else the cast column
TypedCell(row, c, type) ==
    IF c \notin DOMAIN row THEN PqNull
    ELSE IF type = "null" THEN PqNull
    ELSE IF row[c].t = "null" THEN PqNull
    ELSE row[c]

\* mutant of TableCastLike: the row is written with its own columns
TableAsIs(row, schema) == TableRow(row)
\* table_cast_like(table, target_schema); pa.table(cols, schema=...) raises
\* when a column could not be cast
TableCastLike(row, schema) ==
    IF \E c \in DOMAIN schema.cols \cap DOMAIN row :
           schema.cols[c] # "null" /\ ~CanCast(row[c], schema.cols[c])
    THEN CastError
    ELSE [c \in DOMAIN schema.cols |-> TypedCell(row, c, schema.cols[c])]

\* drop_empty_rows_pq: rows with an identity, and a Journal kept according to
\* the type of the Journal column
KeepPqRow(r, schema) ==
    /\ r[SRC].t # "null"
    /\ r[SRC].v # <<>>
    /\ IF schema.cols[JOURNAL] = "string"
       THEN r[JOURNAL].t = "null" \/ ~IsNumeric(CsvText(r[JOURNAL].v))
       ELSE r[JOURNAL].t # "null"

DropEmptyRowsPq(rows, schema) == SelectSeq(rows, LAMBDA r : KeepPqRow(r, schema))

\* ParquetAppender.append(row)
SchemaAppend(row) ==
    /\ sAppends < MaxAppends
    /\ sAppends' = sAppends + 1
    /\ \/ \* the writer is open: cast to self._schema and write
          /\ sWriter
          /\ LET cast == TableCastLike(row, sSelfSchema)
             IN  IF cast = CastError
                 THEN /\ sLast' = [t |-> "raised", row |-> row, written |-> CastError]
                      /\ sWriter' = FALSE
                      /\ sBefore' = sRows
                      /\ UNCHANGED sRows
                 ELSE /\ sLast' = [t |-> "written", row |-> row, written |-> cast]
                      /\ sRows' = Append(sRows, cast)
                      /\ UNCHANGED <<sWriter, sBefore>>
          /\ UNCHANGED <<sExists, sFileSchema, sSelfSchema, sEstablished>>
       \/ \* first row of a run, no file: the row's schema becomes the schema
          /\ ~sWriter
          /\ ~sExists
          /\ sExists' = TRUE
          /\ sFileSchema' = TableSchema(row)
          /\ sSelfSchema' = TableSchema(row)
          /\ sEstablished' = TableSchema(row)
          /\ sWriter' = TRUE
          /\ sRows' = <<TableRow(row)>>
          /\ sLast' = [t |-> "written", row |-> row, written |-> TableRow(row)]
          /\ UNCHANGED sBefore
       \/ \* first row of a run, file without the columns drop_empty_rows_pq reads
          /\ ~sWriter
          /\ sExists
          /\ ~({SRC, JOURNAL} \subseteq DOMAIN sFileSchema.cols)
          /\ sLast' = [t |-> "raised", row |-> row, written |-> CastError]
          /\ sBefore' = sRows
          /\ UNCHANGED <<sExists, sFileSchema, sSelfSchema, sWriter, sRows, sEstablished>>
       \/ \* first row of a run, existing file: clean-up, schema read back, cast,
          \* and ParquetWriter opened on the path, which empties the file
          /\ ~sWriter
          /\ sExists
          /\ {SRC, JOURNAL} \subseteq DOMAIN sFileSchema.cols
          /\ sSelfSchema' = sFileSchema
          /\ LET cast == TableCastLike(row, sFileSchema)
             IN  IF cast = CastError
                 THEN /\ sLast' = [t |-> "raised", row |-> row, written |-> CastError]
                      /\ sRows' = DropEmptyRowsPq(sRows, sFileSchema)
                      /\ sBefore' = sRows'
                      /\ UNCHANGED sWriter
                 ELSE /\ sLast' = [t |-> "written", row |-> row, written |-> cast]
                      /\ sRows' = <<cast>>
                      /\ sWriter' = TRUE
                      /\ UNCHANGED sBefore
          /\ UNCHANGED <<sExists, sFileSchema, sEstablished>>

\* the run ends and the next one starts: __exit__ closes the writer and a new
\* ParquetAppender is created with no writer and no schema
SchemaRestart ==
    /\ sWriter
    /\ sWriter' = FALSE
    /\ sSelfSchema' = NoSchema
    /\ sBefore' = sRows
    /\ UNCHANGED <<sExists, sFileSchema, sRows, sAppends, sEstablished, sLast>>

----------------------------------------------------------------------------
(* SpecCsv: the CSV file as lines, written by append_csv_row and rewritten  *)
(* by drop_empty_rows when load_existing_index runs at the start of a run.  *)

MaxCsvAppends == 3

\* columns = [*df_cols_from_models(), "__source_file__"]
COLUMNS == <<JOURNAL, SRC>>

\* the records handed to append_csv_row: the identity, a Journal that is
\* absent, None, a text or a number-like text, and possibly an unknown key
CsvRecords ==
    {row \in UNION {[S -> {PyNone, PyStr(<<"N">>), PyStr(<<"7">>)}] :
                       S \in SUBSET {SRC, JOURNAL, EXTRA}} :
        /\ SRC \in DOMAIN row
        /\ row[SRC] = PyStr(<<"N">>)
        /\ EXTRA \in DOMAIN row => row[EXTRA] = PyStr(<<"N">>)}

HeaderLine(cols) == [t |-> "header", cells |-> cols]
\* pd.DataFrame([row], columns=cols): one cell per column of cols, in order
DataLine(row, cols) == [t |-> "row", cells |-> [i \in DOMAIN cols |-> CsvCell(row, cols[i])]]

\* mutant of HeaderWanted: every append writes the header
HeaderAlways(exists) == TRUE
\* to_csv(csv_path, mode="a", header=not exists, index=False)
HeaderWanted(exists) == ~exists

NoCsvAppend == [t |-> "noappend"]

\* the documents of the input directory, by identity
CsvDocs == {<<"N">>}
\* todo = [p for p in list_of_pdfs if file_name_sha1(p.name) not in already_processed]
CsvTodo == CsvDocs \ cIndex

\* append_csv_row(csv_path, row, cols), for the record of a document of todo
CsvAppend(row) ==
    /\ cAppends < MaxCsvAppends
    /\ row[SRC].v \in CsvTodo \ cDone
    /\ cDone' = cDone \cup {row[SRC].v}
    /\ cAppends' = cAppends + 1
    /\ LET header == IF HeaderWanted(cExists) THEN <<HeaderLine(COLUMNS)>> ELSE <<>>
           written == header \o <<DataLine(row, COLUMNS)>>
       IN  /\ cLines' = cLines \o written
           /\ cLast' = [t |-> "written", row |-> row, existed |-> cExists,
                        written |-> written]
    /\ cExists' = TRUE
    /\ UNCHANGED <<cIndex, cLoad>>

\* position of a column in the header that read_csv took from the first line
ColumnAt(header, name) == CHOOSE i \in DOMAIN header.cells : header.cells[i] = name

\* drop_empty_rows on the lines below the header
KeepLine(line, header) ==
    /\ line.cells[ColumnAt(header, SRC)].t # "nan"
    /\ ~IsNumeric(line.cells[ColumnAt(header, JOURNAL)])

\* load_existing_index on an existing file: drop_empty_rows reads the file,
\* filters it and writes it back with its header; the identity column is read
CleanedLines(lines) ==
    <<HeaderLine(Head(lines).cells)>> \o
        SelectSeq(Tail(lines), LAMBDA l : KeepLine(l, Head(lines)))

\* set(df["__source_file__"].dropna().astype(str).tolist())
IdentitiesOf(lines) ==
    {lines[i].cells[ColumnAt(Head(lines), SRC)].v :
        i \in {j \in DOMAIN lines :
                  /\ lines[j].t = "row"
                  /\ lines[j].cells[ColumnAt(Head(lines), SRC)].t # "nan"}}

\* mutant of IndexOnError: the identities of the file are returned all the same
IndexOnErrorKept(lines) == IdentitiesOf(lines)
\* except Exception as e: logger.error(...); return set()
IndexOnError(lines) == {}

CsvLoad ==
    /\ cExists
    /\ cLines # <<>>
    /\ cLines' = CleanedLines(cLines)
    /\ cIndex' = IdentitiesOf(CleanedLines(cLines))
    /\ cLoad' = "ok"
    /\ cDone' = {}
    /\ UNCHANGED <<cExists, cAppends, cLast>>

\* load_existing_index on an existing file that cannot be read: a read
\* raises inside the try block, in drop_empty_rows before it writes the file
\* back (the file is as it was) or in the read of the identity column after
\* it (the file is rewritten); the exception is logged
CsvLoadFails(rewritten) ==
    /\ cExists
    /\ cLines # <<>>
    /\ cLines' = IF rewritten THEN CleanedLines(cLines) ELSE cLines
    /\ cIndex' = IndexOnError(cLines)
    /\ cLoad' = "failed"
    /\ cDone' = {}
    /\ UNCHANGED <<cExists, cAppends, cLast>>

\* load_existing_index without a file: `if not csv_path.exists(): return set()`
CsvLoadAbsent ==
    /\ ~cExists
    /\ cIndex' = {}
    /\ cLoad' = "absent"
    /\ cDone' = {}
    /\ UNCHANGED <<cExists, cLines, cAppends, cLast>>

\* a run with OVERWRITE_MD set: load_existing_index is not called
CsvStartOverwrite ==
    /\ cIndex' = {}
    /\ cLoad' = "off"
    /\ cDone' = {}
    /\ UNCHANGED <<cExists, cLines, cAppends, cLast>>

----------------------------------------------------------------------------
(* SpecStrip: build_plan of pdf_section_stripper over the cuts that the     *)
(* outline and the layout detector can return for a document of n pages.    *)

MaxStripPages == 2
MaxKeepFirst == 2

\* Optional[int] that is None
NoPage == -1
\* page1 - 1 of an outline entry whose target does not resolve (page1 = -1)
UnresolvedPage == -2

\* StripConfig: the fields build_plan reads
StripConfigs ==
    [remove_intro : BOOLEAN, remove_background : BOOLEAN,
     remove_ack : BOOLEAN, remove_refs : BOOLEAN,
     keep_first_n_pages_always : 0..MaxKeepFirst, keep_abstract_pages : 0..1]
DefaultStripConfig ==
    [remove_intro |-> TRUE, remove_background |-> TRUE, remove_ack |-> TRUE,
     remove_refs |-> TRUE, keep_first_n_pages_always |-> 1, keep_abstract_pages |-> 1]

\* the start pages a detector can report for a section: none when the flag
\* of the section is off (the detectors do not look for it), else none or a
\* page from `pages`
DetectedStarts(wanted, pages) == IF wanted THEN {NoPage} \cup pages ELSE {NoPage}

\* detect_cuts_from_outline: start pages taken from the outline entries (an
\* entry may be unresolved), no headings
OutlineCuts(n, cfg) ==
    LET pages == {UnresolvedPage} \cup 0..(n - 1)
    IN  {[intro_start |-> i, methods_start |-> m, ack_start |-> a, refs_start |-> r,
          intro_heading |-> NoPage, ack_heading |-> NoPage, refs_heading |-> NoPage] :
            i \in DetectedStarts(cfg.remove_intro \/ cfg.remove_background, pages),
            m \in DetectedStarts(TRUE, pages),
            a \in DetectedStarts(cfg.remove_ack, pages),
            r \in DetectedStarts(cfg.remove_refs, pages)}

\* detect_cuts_from_layout: a start is the page of the first heading of the
\* kind, and the heading is kept with it (none for methods); a heading is
\* kept here by its page
LayoutCuts(n, cfg) ==
    LET pages == 0..(n - 1)
    IN  {[intro_start |-> i, methods_start |-> m, ack_start |-> a, refs_start |-> r,
          intro_heading |-> i, ack_heading |-> a, refs_heading |-> r] :
            i \in DetectedStarts(cfg.remove_intro \/ cfg.remove_background, pages),
            m \in DetectedStarts(TRUE, pages),
            a \in DetectedStarts(cfg.remove_ack, pages),
            r \in DetectedStarts(cfg.remove_refs, pages)}

\* x if x is not None else y
Coalesce(x, y) == IF x # NoPage THEN x ELSE y

\* _merge_cuts(primary, secondary)
MergeCuts(primary, secondary) ==
    [intro_start |-> Coalesce(primary.intro_start, secondary.intro_start),
     methods_start |-> Coalesce(primary.methods_start, secondary.methods_start),
     ack_start |-> Coalesce(primary.ack_start, secondary.ack_start),
     refs_start |-> Coalesce(primary.refs_start, secondary.refs_start),
     intro_heading |-> Coalesce(primary.intro_heading, secondary.intro_heading),
     ack_heading |-> Coalesce(primary.ack_heading, secondary.ack_heading),
     refs_heading |-> Coalesce(primary.refs_heading, secondary.refs_heading)]

\* for i in range(a, b): keep_pages.discard(i)
DiscardRange(keep, a, b) == keep \ {i \in keep : a <= i /\ i < b}

\* 1) references: from refs start to the end
DropRefs(keep, cuts, cfg, n) ==
    IF cfg.remove_refs /\ cuts.refs_start # NoPage
    THEN DiscardRange(keep, cuts.refs_start, n)
    ELSE keep

\* 2) acknowledgements: from ack start to refs start, or to the end
DropAck(keep, cuts, cfg, n) ==
    IF cfg.remove_ack /\ cuts.ack_start # NoPage
    THEN DiscardRange(keep, cuts.ack_start,
                      IF cuts.refs_start # NoPage THEN cuts.refs_start ELSE n)
    ELSE keep

\* 3) intro/background: from intro start to methods start, when methods is
\* found after intro; pages below protected_until stay
DropIntro(keep, cuts, cfg, n) ==
    LET protected_until ==
            Min2(n, cfg.keep_first_n_pages_always + cfg.keep_abstract_pages)
    IN  IF /\ cfg.remove_intro \/ cfg.remove_background
           /\ cuts.intro_start # NoPage
           /\ cuts.methods_start # NoPage
           /\ cuts.methods_start > cuts.intro_start
        THEN DiscardRange(keep, Max2(cuts.intro_start, protected_until),
                          cuts.methods_start)
        ELSE keep

\* mutant of KeepFirst: the first pages are not put back
KeepFirstSkipped(keep, cfg, n) == keep
\* for i in range(min(cfg.keep_first_n_pages_always, n)): keep_pages.add(i)
KeepFirst(keep, cfg, n) ==
    keep \cup 0..(Min2(cfg.keep_first_n_pages_always, n) - 1)

\* add_redaction(h): nothing without a heading or on a page that is not kept;
\* otherwise one more rectangle on the page of the heading
AddRedaction(red, h, keep) ==
    IF h = NoPage \/ h \notin keep THEN red
    ELSE IF h \in DOMAIN red
         THEN [red EXCEPT ![h] = @ + 1]
         ELSE [p \in DOMAIN red \cup {h} |-> IF p = h THEN 1 ELSE red[p]]

\* the three calls of add_redaction, each under its flag
Redactions(keep, cuts, cfg) ==
    LET r0 == [p \in {} |-> 0]
        r1 == IF cfg.remove_refs THEN AddRedaction(r0, cuts.refs_heading, keep) ELSE r0
        r2 == IF cfg.remove_ack THEN AddRedaction(r1, cuts.ack_heading, keep) ELSE r1
    IN  IF cfg.remove_intro \/ cfg.remove_background
        THEN AddRedaction(r2, cuts.intro_heading, keep)
        ELSE r2

\* sorted(keep_pages)
RECURSIVE Sorted(_)
Sorted(S) ==
    IF S = {} THEN <<>>
    ELSE LET lo == CHOOSE x \in S : \A y \in S : x <= y
         IN  <<lo>> \o Sorted(S \ {lo})

NoPlan == [keep_pages |-> <<>>, redactions |-> [p \in {} |-> 0]]

\* build_plan(doc, outline_cuts, layout_cuts, cfg); redactions maps a page to
\* the number of rectangles put on it
build_plan(n, outline_cuts, layout_cuts, cfg) ==
    LET cuts == MergeCuts(outline_cuts, layout_cuts)
        all == 0..(n - 1)
        keep == KeepFirst(DropIntro(DropAck(DropRefs(all, cuts, cfg, n),
                                            cuts, cfg, n), cuts, cfg, n), cfg, n)
    IN  [keep_pages |-> Sorted(keep), redactions |-> Redactions(keep, cuts, cfg)]

\* PDFSectionStripper.process_pdf: the two detections and the plan
StripBuildPlan(outline_cuts, layout_cuts) ==
    /\ kPc = "ready"
    /\ kPlan' = build_plan(kN, outline_cuts, layout_cuts, kCfg)
    /\ kPc' = "planned"
    /\ UNCHANGED <<kN, kCfg>>

----------------------------------------------------------------------------
(* SpecValidate: the batched pass of validate_dataframe_with_llm over the   *)
(* rows queued for one field, with any batch failing or answering.          *)

MaxQueued == 3

\* the values of a list cell and their sentences
ValueNames == <<"a", "b">>
SentenceNames == <<"s", "t">>

\* the rows that were queued: non-empty values with as many sentences (list
\* field), or one value and one sentence (scalar field)
Metas(is_list) ==
    IF is_list
    THEN {[values |-> PyList(SubSeq(ValueNames, 1, n)),
           sentences |-> PyList(SubSeq(SentenceNames, 1, n))] : n \in 1..Len(ValueNames)}
    ELSE {[values |-> PyStr(<<"a">>), sentences |-> PyStr(<<"s">>)]}
MetaSeqs(is_list) == UNION {[1..n -> Metas(is_list)] : n \in 1..MaxQueued}

\* the row of df_validated behind a queued input
RowOf(meta) == [value |-> meta.values, sentence |-> meta.sentences]

\* what the chain returns for one input: None, or a dict whose "supported" is
\* a list of verdicts, of any length, or a single bool
ResultNone == [t |-> "none"]
Verdicts ==
    {PyList(l) : l \in UNION {[1..n -> BOOLEAN] : n \in 0..Len(ValueNames)}}
        \cup {[t |-> "bool", v |-> TRUE]}
ChainResults == {ResultNone} \cup {[t |-> "dict", supported |-> v] : v \in Verdicts}
\* the history entry of an input whose batch raised, or that was not sent yet
BatchFailed == [t |-> "failed"]
NotAsked == [t |-> "notasked"]

\* [v for v, ok in zip(values, supported) if ok]
RECURSIVE FilterSupported(_, _)
FilterSupported(values, supported) ==
    IF values = <<>> \/ supported = <<>> THEN <<>>
    ELSE (IF Head(supported) THEN <<Head(values)>> ELSE <<>>)
            \o FilterSupported(Tail(values), Tail(supported))

\* x if x else None, for a list
ListOrNone(l) == IF l = <<>> THEN PyNone ELSE PyList(l)

\* _apply_llm_result_to_row(row, cfg, values, sentences, result)
ApplyLLMResult(row, is_list, values, sentences, result) ==
    LET supported == result.supported
    IN  IF is_list
        THEN IF ~IsList(values) \/ ~IsList(sentences) THEN row
             ELSE IF ~IsList(supported) THEN row
             ELSE IF \/ Len(values.v) # Len(sentences.v)
                     \/ Len(values.v) # Len(supported.v) THEN row
             ELSE [value |-> ListOrNone(FilterSupported(values.v, supported.v)),
                   sentence |-> ListOrNone(sentences.v)]
        ELSE LET ok == IF IsList(supported)
                       THEN supported.v # <<>> /\ Head(supported.v)
                       ELSE supported.v
             IN  IF ok THEN row ELSE [row EXCEPT !.value = PyNone]

\* ceil(total / batch_size)
NumBatches(total, batch_size) == (total + batch_size - 1) \div batch_size

\* mutant of FilledOnFailure: a failed batch contributes no results
NotFilledOnFailure(n) == <<>>
\* batch_results = [None] * len(batch_inputs)
FilledOnFailure(n) == [j \in 1..n |-> ResultNone]

\* inputs[start:end] of batch b
BatchStart(b) == b * vBatchSize
BatchEnd(b) == Min2((b + 1) * vBatchSize, Len(vMeta))

\* one round of the batch loop: inputs[start:end] go to chain.batch, which
\* answers every input or raises; the results extend all_results
ValBatch(failed, answers) ==
    /\ vPc = "batching"
    /\ LET start == BatchStart(vB)
           end == BatchEnd(vB)
           batch_results == IF failed THEN FilledOnFailure(end - start) ELSE answers
       IN  /\ vResults' = vResults \o batch_results
           /\ vGiven' = [i \in DOMAIN vGiven |->
                            IF start < i /\ i <= end
                            THEN IF failed THEN BatchFailed ELSE answers[i - start]
                            ELSE vGiven[i]]
           /\ vB' = vB + 1
           /\ vPc' = IF vB + 1 >= NumBatches(Len(vMeta), vBatchSize)
                     THEN "applying" ELSE "batching"
    /\ UNCHANGED <<vIsList, vBatchSize, vMeta, vDf>>

\* for (idx, values, sentences), result in zip(meta, all_results), from
\* position i on: a None result is skipped, any other is applied to row idx
RECURSIVE ApplyFrom(_, _)
ApplyFrom(df, i) ==
    IF i > Min2(Len(vMeta), Len(vResults)) THEN df
    ELSE ApplyFrom(IF vResults[i] = ResultNone THEN df
                   ELSE [df EXCEPT ![i] =
                           ApplyLLMResult(@, vIsList, vMeta[i].values,
                                          vMeta[i].sentences, vResults[i])],
                   i + 1)

\* the apply loop over all results of the field
ValApply ==
    /\ vPc = "applying"
    /\ vDf' = ApplyFrom(vDf, 1)
    /\ vPc' = "done"
    /\ UNCHANGED <<vIsList, vBatchSize, vMeta, vResults, vB, vGiven>>

----------------------------------------------------------------------------
(* Specifications *)

NextMerge ==
    \/ MergeAB /\ UNCHANGED othersMerge
    \/ MergeABB /\ UNCHANGED othersMerge
    \/ MergeBA /\ UNCHANGED othersMerge

NextPlan ==
    \/ PlanNone /\ UNCHANGED othersPlan
    \/ PlanSingle /\ UNCHANGED othersPlan
    \/ PlanEnterLoop /\ UNCHANGED othersPlan
    \/ PlanLoopStep /\ UNCHANGED othersPlan
    \/ PlanLoopExit /\ UNCHANGED othersPlan

Next ==
    \/ StartRun /\ UNCHANGED othersPipe
    \/ \E d \in Docs : DocStart(d) /\ UNCHANGED othersPipe
    \/ \E d \in Docs : \E w \in 1..3 : Acquire(d, w) /\ UNCHANGED othersPipe
    \/ \E d \in Docs : \E w \in 1..3 : \E o \in WindowOutcomes :
          Complete(d, w, o) /\ UNCHANGED othersPipe
    \/ \E d \in Docs : DocFinish(d) /\ UNCHANGED othersPipe
    \/ Await /\ UNCHANGED othersPipe
    \/ AppendCsv /\ UNCHANGED othersPipe
    \/ AppendCsvRaises /\ UNCHANGED othersPipe
    \/ AppendPq /\ UNCHANGED othersPipe
    \/ AppendPqRaises /\ UNCHANGED othersPipe
    \/ FinishRun /\ UNCHANGED othersPipe
    \/ Interrupt /\ UNCHANGED othersPipe

InitSpecMerge ==
    /\ mA \in MergeInputs
    /\ mB \in MergeInputs
    /\ mRes = [r \in Runs |-> NotRun]
    /\ pPages = 0
    /\ pSize = MAX_PAGES_PER_REQ
    /\ pStart = 0
    /\ pChunks = <<>>
    /\ pPc = "begin"
    /\ resume = TRUE
    /\ pageCount = [d \in Docs |-> 0]
    /\ run = 0
    /\ phase = "idle"
    /\ index = {}
    /\ todo = {}
    /\ dpc = [d \in Docs |-> "idle"]
    /\ dres = [d \in Docs |-> NoResult]
    /\ docChunks = [d \in Docs |-> <<>>]
    /\ wst = [d \in Docs |-> <<>>]
    /\ wout = [d \in Docs |-> <<>>]
    /\ chunkResults = [d \in Docs |-> <<>>]
    /\ folded = [d \in Docs |-> <<>>]
    /\ sem = 0
    /\ compQ = <<>>
    /\ ppc = "wait"
    /\ cur = NoDoc
    /\ consumed = {}
    /\ csvExists = FALSE
    /\ csvRows = <<>>
    /\ pqExists = FALSE
    /\ pqCols = {}
    /\ pqRows = <<>>
    /\ pqWriter = FALSE
    /\ touched = [d \in Docs |-> {}]
    /\ csvAtStart = <<>>
    /\ everPersisted = {}
    /\ abortedBy = NoDoc
    /\ persistFailed = NoDoc
    /\ gK = 1
    /\ gHeld = 0
    /\ gWin = [w \in GateWindows |-> NewWindow]
    /\ gLock = NoWindow
    /\ lClock = 0
    /\ lLast = 0
    /\ lLock = NoCaller
    /\ lQueue = <<>>
    /\ lPc = [c \in LimCallers |-> "idle"]
    /\ lWake = [c \in LimCallers |-> 0]
    /\ lArrivals = <<>>
    /\ lGrants = <<>>
    /\ rReq = [q \in Requests |-> NewRequest]
    /\ rWin = "pending"
    /\ rRow = {}
    /\ sExists = FALSE
    /\ sFileSchema = NoSchema
    /\ sSelfSchema = NoSchema
    /\ sWriter = FALSE
    /\ sRows = <<>>
    /\ sAppends = 0
    /\ sEstablished = NoSchema
    /\ sLast = NoAppend
    /\ sBefore = <<>>
    /\ cExists = FALSE
    /\ cLines = <<>>
    /\ cAppends = 0
    /\ cLast = NoCsvAppend
    /\ cIndex = {}
    /\ cLoad = "off"
    /\ cDone = {}
    /\ kN = 0
    /\ kCfg = DefaultStripConfig
    /\ kPlan = NoPlan
    /\ kPc = "ready"
    /\ vIsList = TRUE
    /\ vBatchSize = 1
    /\ vMeta = <<>>
    /\ vDf = <<>>
    /\ vResults = <<>>
    /\ vB = 0
    /\ vPc = "done"
    /\ vGiven = <<>>

InitSpecPlan ==
    /\ pPages \in 0..MaxPages
    /\ pSize \in 1..MaxWindowSize
    /\ pStart = 0
    /\ pChunks = <<>>
    /\ pPc = "begin"
    /\ mA = EmptyDict
    /\ mB = EmptyDict
    /\ mRes = [r \in Runs |-> NotRun]
    /\ resume = TRUE
    /\ pageCount = [d \in Docs |-> 0]
    /\ run = 0
    /\ phase = "idle"
    /\ index = {}
    /\ todo = {}
    /\ dpc = [d \in Docs |-> "idle"]
    /\ dres = [d \in Docs |-> NoResult]
    /\ docChunks = [d \in Docs |-> <<>>]
    /\ wst = [d \in Docs |-> <<>>]
    /\ wout = [d \in Docs |-> <<>>]
    /\ chunkResults = [d \in Docs |-> <<>>]
    /\ folded = [d \in Docs |-> <<>>]
    /\ sem = 0
    /\ compQ = <<>>
    /\ ppc = "wait"
    /\ cur = NoDoc
    /\ consumed = {}
    /\ csvExists = FALSE
    /\ csvRows = <<>>
    /\ pqExists = FALSE
    /\ pqCols = {}
    /\ pqRows = <<>>
    /\ pqWriter = FALSE
    /\ touched = [d \in Docs |-> {}]
    /\ csvAtStart = <<>>
    /\ everPersisted = {}
    /\ abortedBy = NoDoc
    /\ persistFailed = NoDoc
    /\ gK = 1
    /\ gHeld = 0
    /\ gWin = [w \in GateWindows |-> NewWindow]
    /\ gLock = NoWindow
    /\ lClock = 0
    /\ lLast = 0
    /\ lLock = NoCaller
    /\ lQueue = <<>>
    /\ lPc = [c \in LimCallers |-> "idle"]
    /\ lWake = [c \in LimCallers |-> 0]
    /\ lArrivals = <<>>
    /\ lGrants = <<>>
    /\ rReq = [q \in Requests |-> NewRequest]
    /\ rWin = "pending"
    /\ rRow = {}
    /\ sExists = FALSE
    /\ sFileSchema = NoSchema
    /\ sSelfSchema = NoSchema
    /\ sWriter = FALSE
    /\ sRows = <<>>
    /\ sAppends = 0
    /\ sEstablished = NoSchema
    /\ sLast = NoAppend
    /\ sBefore = <<>>
    /\ cExists = FALSE
    /\ cLines = <<>>
    /\ cAppends = 0
    /\ cLast = NoCsvAppend
    /\ cIndex = {}
    /\ cLoad = "off"
    /\ cDone = {}
    /\ kN = 0
    /\ kCfg = DefaultStripConfig
    /\ kPlan = NoPlan
    /\ kPc = "ready"
    /\ vIsList = TRUE
    /\ vBatchSize = 1
    /\ vMeta = <<>>
    /\ vDf = <<>>
    /\ vResults = <<>>
    /\ vB = 0
    /\ vPc = "done"
    /\ vGiven = <<>>

\* the state before the first run: both sinks absent, nothing scheduled, and
\* OVERWRITE_MD set to false (resume mode)
Init ==
    /\ resume = TRUE
    /\ pageCount \in PageCountChoices
    /\ run = 0
    /\ phase = "idle"
    /\ index = {}
    /\ todo = {}
    /\ dpc = [d \in Docs |-> "idle"]
    /\ dres = [d \in Docs |-> NoResult]
    /\ docChunks = [d \in Docs |-> <<>>]
    /\ wst = [d \in Docs |-> <<>>]
    /\ wout = [d \in Docs |-> <<>>]
    /\ chunkResults = [d \in Docs |-> <<>>]
    /\ folded = [d \in Docs |-> <<>>]
    /\ sem = 0
    /\ compQ = <<>>
    /\ ppc = "wait"
    /\ cur = NoDoc
    /\ consumed = {}
    /\ csvExists = FALSE
    /\ csvRows = <<>>
    /\ pqExists = FALSE
    /\ pqCols = {}
    /\ pqRows = <<>>
    /\ pqWriter = FALSE
    /\ touched = [d \in Docs |-> {}]
    /\ csvAtStart = <<>>
    /\ everPersisted = {}
    /\ abortedBy = NoDoc
    /\ persistFailed = NoDoc
    /\ mA = EmptyDict
    /\ mB = EmptyDict
    /\ mRes = [r \in Runs |-> NotRun]
    /\ pPages = 0
    /\ pSize = MAX_PAGES_PER_REQ
    /\ pStart = 0
    /\ pChunks = <<>>
    /\ pPc = "begin"
    /\ gK = 1
    /\ gHeld = 0
    /\ gWin = [w \in GateWindows |-> NewWindow]
    /\ gLock = NoWindow
    /\ lClock = 0
    /\ lLast = 0
    /\ lLock = NoCaller
    /\ lQueue = <<>>
    /\ lPc = [c \in LimCallers |-> "idle"]
    /\ lWake = [c \in LimCallers |-> 0]
    /\ lArrivals = <<>>
    /\ lGrants = <<>>
    /\ rReq = [q \in Requests |-> NewRequest]
    /\ rWin = "pending"
    /\ rRow = {}
    /\ sExists = FALSE
    /\ sFileSchema = NoSchema
    /\ sSelfSchema = NoSchema
    /\ sWriter = FALSE
    /\ sRows = <<>>
    /\ sAppends = 0
    /\ sEstablished = NoSchema
    /\ sLast = NoAppend
    /\ sBefore = <<>>
    /\ cExists = FALSE
    /\ cLines = <<>>
    /\ cAppends = 0
    /\ cLast = NoCsvAppend
    /\ cIndex = {}
    /\ cLoad = "off"
    /\ cDone = {}
    /\ kN = 0
    /\ kCfg = DefaultStripConfig
    /\ kPlan = NoPlan
    /\ kPc = "ready"
    /\ vIsList = TRUE
    /\ vBatchSize = 1
    /\ vMeta = <<>>
    /\ vDf = <<>>
    /\ vResults = <<>>
    /\ vB = 0
    /\ vPc = "done"
    /\ vGiven = <<>>

InitSpecGate ==
    /\ gK \in 1..MaxGateK
    /\ gHeld = 0
    /\ gWin = [w \in GateWindows |-> NewWindow]
    /\ gLock = NoWindow
    /\ mA = EmptyDict
    /\ mB = EmptyDict
    /\ mRes = [r \in Runs |-> NotRun]
    /\ pPages = 0
    /\ pSize = MAX_PAGES_PER_REQ
    /\ pStart = 0
    /\ pChunks = <<>>
    /\ pPc = "begin"
    /\ resume = TRUE
    /\ pageCount = [d \in Docs |-> 0]
    /\ run = 0
    /\ phase = "idle"
    /\ index = {}
    /\ todo = {}
    /\ dpc = [d \in Docs |-> "idle"]
    /\ dres = [d \in Docs |-> NoResult]
    /\ docChunks = [d \in Docs |-> <<>>]
    /\ wst = [d \in Docs |-> <<>>]
    /\ wout = [d \in Docs |-> <<>>]
    /\ chunkResults = [d \in Docs |-> <<>>]
    /\ folded = [d \in Docs |-> <<>>]
    /\ sem = 0
    /\ compQ = <<>>
    /\ ppc = "wait"
    /\ cur = NoDoc
    /\ consumed = {}
    /\ csvExists = FALSE
    /\ csvRows = <<>>
    /\ pqExists = FALSE
    /\ pqCols = {}
    /\ pqRows = <<>>
    /\ pqWriter = FALSE
    /\ touched = [d \in Docs |-> {}]
    /\ csvAtStart = <<>>
    /\ everPersisted = {}
    /\ abortedBy = NoDoc
    /\ persistFailed = NoDoc
    /\ lClock = 0
    /\ lLast = 0
    /\ lLock = NoCaller
    /\ lQueue = <<>>
    /\ lPc = [c \in LimCallers |-> "idle"]
    /\ lWake = [c \in LimCallers |-> 0]
    /\ lArrivals = <<>>
    /\ lGrants = <<>>
    /\ rReq = [q \in Requests |-> NewRequest]
    /\ rWin = "pending"
    /\ rRow = {}
    /\ sExists = FALSE
    /\ sFileSchema = NoSchema
    /\ sSelfSchema = NoSchema
    /\ sWriter = FALSE
    /\ sRows = <<>>
    /\ sAppends = 0
    /\ sEstablished = NoSchema
    /\ sLast = NoAppend
    /\ sBefore = <<>>
    /\ cExists = FALSE
    /\ cLines = <<>>
    /\ cAppends = 0
    /\ cLast = NoCsvAppend
    /\ cIndex = {}
    /\ cLoad = "off"
    /\ cDone = {}
    /\ kN = 0
    /\ kCfg = DefaultStripConfig
    /\ kPlan = NoPlan
    /\ kPc = "ready"
    /\ vIsList = TRUE
    /\ vBatchSize = 1
    /\ vMeta = <<>>
    /\ vDf = <<>>
    /\ vResults = <<>>
    /\ vB = 0
    /\ vPc = "done"
    /\ vGiven = <<>>

InitSpecLimiter ==
    /\ lClock \in 0..LimInterval
    /\ lLast = 0
    /\ lLock = NoCaller
    /\ lQueue = <<>>
    /\ lPc = [c \in LimCallers |-> "idle"]
    /\ lWake = [c \in LimCallers |-> 0]
    /\ lArrivals = <<>>
    /\ lGrants = <<>>
    /\ mA = EmptyDict
    /\ mB = EmptyDict
    /\ mRes = [r \in Runs |-> NotRun]
    /\ pPages = 0
    /\ pSize = MAX_PAGES_PER_REQ
    /\ pStart = 0
    /\ pChunks = <<>>
    /\ pPc = "begin"
    /\ resume = TRUE
    /\ pageCount = [d \in Docs |-> 0]
    /\ run = 0
    /\ phase = "idle"
    /\ index = {}
    /\ todo = {}
    /\ dpc = [d \in Docs |-> "idle"]
    /\ dres = [d \in Docs |-> NoResult]
    /\ docChunks = [d \in Docs |-> <<>>]
    /\ wst = [d \in Docs |-> <<>>]
    /\ wout = [d \in Docs |-> <<>>]
    /\ chunkResults = [d \in Docs |-> <<>>]
    /\ folded = [d \in Docs |-> <<>>]
    /\ sem = 0
    /\ compQ = <<>>
    /\ ppc = "wait"
    /\ cur = NoDoc
    /\ consumed = {}
    /\ csvExists = FALSE
    /\ csvRows = <<>>
    /\ pqExists = FALSE
    /\ pqCols = {}
    /\ pqRows = <<>>
    /\ pqWriter = FALSE
    /\ touched = [d \in Docs |-> {}]
    /\ csvAtStart = <<>>
    /\ everPersisted = {}
    /\ abortedBy = NoDoc
    /\ persistFailed = NoDoc
    /\ gK = 1
    /\ gHeld = 0
    /\ gWin = [w \in GateWindows |-> NewWindow]
    /\ gLock = NoWindow
    /\ rReq = [q \in Requests |-> NewRequest]
    /\ rWin = "pending"
    /\ rRow = {}
    /\ sExists = FALSE
    /\ sFileSchema = NoSchema
    /\ sSelfSchema = NoSchema
    /\ sWriter = FALSE
    /\ sRows = <<>>
    /\ sAppends = 0
    /\ sEstablished = NoSchema
    /\ sLast = NoAppend
    /\ sBefore = <<>>
    /\ cExists = FALSE
    /\ cLines = <<>>
    /\ cAppends = 0
    /\ cLast = NoCsvAppend
    /\ cIndex = {}
    /\ cLoad = "off"
    /\ cDone = {}
    /\ kN = 0
    /\ kCfg = DefaultStripConfig
    /\ kPlan = NoPlan
    /\ kPc = "ready"
    /\ vIsList = TRUE
    /\ vBatchSize = 1
    /\ vMeta = <<>>
    /\ vDf = <<>>
    /\ vResults = <<>>
    /\ vB = 0
    /\ vPc = "done"
    /\ vGiven = <<>>

InitSpecRetry ==
    /\ rReq = [q \in Requests |-> NewRequest]
    /\ rWin = "pending"
    /\ rRow = {}
    /\ mA = EmptyDict
    /\ mB = EmptyDict
    /\ mRes = [r \in Runs |-> NotRun]
    /\ pPages = 0
    /\ pSize = MAX_PAGES_PER_REQ
    /\ pStart = 0
    /\ pChunks = <<>>
    /\ pPc = "begin"
    /\ resume = TRUE
    /\ pageCount = [d \in Docs |-> 0]
    /\ run = 0
    /\ phase = "idle"
    /\ index = {}
    /\ todo = {}
    /\ dpc = [d \in Docs |-> "idle"]
    /\ dres = [d \in Docs |-> NoResult]
    /\ docChunks = [d \in Docs |-> <<>>]
    /\ wst = [d \in Docs |-> <<>>]
    /\ wout = [d \in Docs |-> <<>>]
    /\ chunkResults = [d \in Docs |-> <<>>]
    /\ folded = [d \in Docs |-> <<>>]
    /\ sem = 0
    /\ compQ = <<>>
    /\ ppc = "wait"
    /\ cur = NoDoc
    /\ consumed = {}
    /\ csvExists = FALSE
    /\ csvRows = <<>>
    /\ pqExists = FALSE
    /\ pqCols = {}
    /\ pqRows = <<>>
    /\ pqWriter = FALSE
    /\ touched = [d \in Docs |-> {}]
    /\ csvAtStart = <<>>
    /\ everPersisted = {}
    /\ abortedBy = NoDoc
    /\ persistFailed = NoDoc
    /\ gK = 1
    /\ gHeld = 0
    /\ gWin = [w \in GateWindows |-> NewWindow]
    /\ gLock = NoWindow
    /\ lClock = 0
    /\ lLast = 0
    /\ lLock = NoCaller
    /\ lQueue = <<>>
    /\ lPc = [c \in LimCallers |-> "idle"]
    /\ lWake = [c \in LimCallers |-> 0]
    /\ lArrivals = <<>>
    /\ lGrants = <<>>
    /\ sExists = FALSE
    /\ sFileSchema = NoSchema
    /\ sSelfSchema = NoSchema
    /\ sWriter = FALSE
    /\ sRows = <<>>
    /\ sAppends = 0
    /\ sEstablished = NoSchema
    /\ sLast = NoAppend
    /\ sBefore = <<>>
    /\ cExists = FALSE
    /\ cLines = <<>>
    /\ cAppends = 0
    /\ cLast = NoCsvAppend
    /\ cIndex = {}
    /\ cLoad = "off"
    /\ cDone = {}
    /\ kN = 0
    /\ kCfg = DefaultStripConfig
    /\ kPlan = NoPlan
    /\ kPc = "ready"
    /\ vIsList = TRUE
    /\ vBatchSize = 1
    /\ vMeta = <<>>
    /\ vDf = <<>>
    /\ vResults = <<>>
    /\ vB = 0
    /\ vPc = "done"
    /\ vGiven = <<>>

InitSpecSchema ==
    /\ sExists = FALSE
    /\ sFileSchema = NoSchema
    /\ sSelfSchema = NoSchema
    /\ sWriter = FALSE
    /\ sRows = <<>>
    /\ sAppends = 0
    /\ sEstablished = NoSchema
    /\ sLast = NoAppend
    /\ sBefore = <<>>
    /\ mA = EmptyDict
    /\ mB = EmptyDict
    /\ mRes = [r \in Runs |-> NotRun]
    /\ pPages = 0
    /\ pSize = MAX_PAGES_PER_REQ
    /\ pStart = 0
    /\ pChunks = <<>>
    /\ pPc = "begin"
    /\ resume = TRUE
    /\ pageCount = [d \in Docs |-> 0]
    /\ run = 0
    /\ phase = "idle"
    /\ index = {}
    /\ todo = {}
    /\ dpc = [d \in Docs |-> "idle"]
    /\ dres = [d \in Docs |-> NoResult]
    /\ docChunks = [d \in Docs |-> <<>>]
    /\ wst = [d \in Docs |-> <<>>]
    /\ wout = [d \in Docs |-> <<>>]
    /\ chunkResults = [d \in Docs |-> <<>>]
    /\ folded = [d \in Docs |-> <<>>]
    /\ sem = 0
    /\ compQ = <<>>
    /\ ppc = "wait"
    /\ cur = NoDoc
    /\ consumed = {}
    /\ csvExists = FALSE
    /\ csvRows = <<>>
    /\ pqExists = FALSE
    /\ pqCols = {}
    /\ pqRows = <<>>
    /\ pqWriter = FALSE
    /\ touched = [d \in Docs |-> {}]
    /\ csvAtStart = <<>>
    /\ everPersisted = {}
    /\ abortedBy = NoDoc
    /\ persistFailed = NoDoc
    /\ gK = 1
    /\ gHeld = 0
    /\ gWin = [w \in GateWindows |-> NewWindow]
    /\ gLock = NoWindow
    /\ lClock = 0
    /\ lLast = 0
    /\ lLock = NoCaller
    /\ lQueue = <<>>
    /\ lPc = [c \in LimCallers |-> "idle"]
    /\ lWake = [c \in LimCallers |-> 0]
    /\ lArrivals = <<>>
    /\ lGrants = <<>>
    /\ rReq = [q \in Requests |-> NewRequest]
    /\ rWin = "pending"
    /\ rRow = {}
    /\ cExists = FALSE
    /\ cLines = <<>>
    /\ cAppends = 0
    /\ cLast = NoCsvAppend
    /\ cIndex = {}
    /\ cLoad = "off"
    /\ cDone = {}
    /\ kN = 0
    /\ kCfg = DefaultStripConfig
    /\ kPlan = NoPlan
    /\ kPc = "ready"
    /\ vIsList = TRUE
    /\ vBatchSize = 1
    /\ vMeta = <<>>
    /\ vDf = <<>>
    /\ vResults = <<>>
    /\ vB = 0
    /\ vPc = "done"
    /\ vGiven = <<>>

InitSpecCsv ==
    /\ cExists = FALSE
    /\ cLines = <<>>
    /\ cAppends = 0
    /\ cLast = NoCsvAppend
    /\ cIndex = {}
    /\ cLoad = "off"
    /\ cDone = {}
    /\ mA = EmptyDict
    /\ mB = EmptyDict
    /\ mRes = [r \in Runs |-> NotRun]
    /\ pPages = 0
    /\ pSize = MAX_PAGES_PER_REQ
    /\ pStart = 0
    /\ pChunks = <<>>
    /\ pPc = "begin"
    /\ resume = TRUE
    /\ pageCount = [d \in Docs |-> 0]
    /\ run = 0
    /\ phase = "idle"
    /\ index = {}
    /\ todo = {}
    /\ dpc = [d \in Docs |-> "idle"]
    /\ dres = [d \in Docs |-> NoResult]
    /\ docChunks = [d \in Docs |-> <<>>]
    /\ wst = [d \in Docs |-> <<>>]
    /\ wout = [d \in Docs |-> <<>>]
    /\ chunkResults = [d \in Docs |-> <<>>]
    /\ folded = [d \in Docs |-> <<>>]
    /\ sem = 0
    /\ compQ = <<>>
    /\ ppc = "wait"
    /\ cur = NoDoc
    /\ consumed = {}
    /\ csvExists = FALSE
    /\ csvRows = <<>>
    /\ pqExists = FALSE
    /\ pqCols = {}
    /\ pqRows = <<>>
    /\ pqWriter = FALSE
    /\ touched = [d \in Docs |-> {}]
    /\ csvAtStart = <<>>
    /\ everPersisted = {}
    /\ abortedBy = NoDoc
    /\ persistFailed = NoDoc
    /\ gK = 1
    /\ gHeld = 0
    /\ gWin = [w \in GateWindows |-> NewWindow]
    /\ gLock = NoWindow
    /\ lClock = 0
    /\ lLast = 0
    /\ lLock = NoCaller
    /\ lQueue = <<>>
    /\ lPc = [c \in LimCallers |-> "idle"]
    /\ lWake = [c \in LimCallers |-> 0]
    /\ lArrivals = <<>>
    /\ lGrants = <<>>
    /\ rReq = [q \in Requests |-> NewRequest]
    /\ rWin = "pending"
    /\ rRow = {}
    /\ sExists = FALSE
    /\ sFileSchema = NoSchema
    /\ sSelfSchema = NoSchema
    /\ sWriter = FALSE
    /\ sRows = <<>>
    /\ sAppends = 0
    /\ sEstablished = NoSchema
    /\ sLast = NoAppend
    /\ sBefore = <<>>
    /\ kN = 0
    /\ kCfg = DefaultStripConfig
    /\ kPlan = NoPlan
    /\ kPc = "ready"
    /\ vIsList = TRUE
    /\ vBatchSize = 1
    /\ vMeta = <<>>
    /\ vDf = <<>>
    /\ vResults = <<>>
    /\ vB = 0
    /\ vPc = "done"
    /\ vGiven = <<>>

InitSpecStrip ==
    /\ kN \in 0..MaxStripPages
    /\ kCfg \in StripConfigs
    /\ kPlan = NoPlan
    /\ kPc = "ready"
    /\ mA = EmptyDict
    /\ mB = EmptyDict
    /\ mRes = [r \in Runs |-> NotRun]
    /\ pPages = 0
    /\ pSize = MAX_PAGES_PER_REQ
    /\ pStart = 0
    /\ pChunks = <<>>
    /\ pPc = "begin"
    /\ resume = TRUE
    /\ pageCount = [d \in Docs |-> 0]
    /\ run = 0
    /\ phase = "idle"
    /\ index = {}
    /\ todo = {}
    /\ dpc = [d \in Docs |-> "idle"]
    /\ dres = [d \in Docs |-> NoResult]
    /\ docChunks = [d \in Docs |-> <<>>]
    /\ wst = [d \in Docs |-> <<>>]
    /\ wout = [d \in Docs |-> <<>>]
    /\ chunkResults = [d \in Docs |-> <<>>]
    /\ folded = [d \in Docs |-> <<>>]
    /\ sem = 0
    /\ compQ = <<>>
    /\ ppc = "wait"
    /\ cur = NoDoc
    /\ consumed = {}
    /\ csvExists = FALSE
    /\ csvRows = <<>>
    /\ pqExists = FALSE
    /\ pqCols = {}
    /\ pqRows = <<>>
    /\ pqWriter = FALSE
    /\ touched = [d \in Docs |-> {}]
    /\ csvAtStart = <<>>
    /\ everPersisted = {}
    /\ abortedBy = NoDoc
    /\ persistFailed = NoDoc
    /\ gK = 1
    /\ gHeld = 0
    /\ gWin = [w \in GateWindows |-> NewWindow]
    /\ gLock = NoWindow
    /\ lClock = 0
    /\ lLast = 0
    /\ lLock = NoCaller
    /\ lQueue = <<>>
    /\ lPc = [c \in LimCallers |-> "idle"]
    /\ lWake = [c \in LimCallers |-> 0]
    /\ lArrivals = <<>>
    /\ lGrants = <<>>
    /\ rReq = [q \in Requests |-> NewRequest]
    /\ rWin = "pending"
    /\ rRow = {}
    /\ sExists = FALSE
    /\ sFileSchema = NoSchema
    /\ sSelfSchema = NoSchema
    /\ sWriter = FALSE
    /\ sRows = <<>>
    /\ sAppends = 0
    /\ sEstablished = NoSchema
    /\ sLast = NoAppend
    /\ sBefore = <<>>
    /\ cExists = FALSE
    /\ cLines = <<>>
    /\ cAppends = 0
    /\ cLast = NoCsvAppend
    /\ cIndex = {}
    /\ cLoad = "off"
    /\ cDone = {}
    /\ vIsList = TRUE
    /\ vBatchSize = 1
    /\ vMeta = <<>>
    /\ vDf = <<>>
    /\ vResults = <<>>
    /\ vB = 0
    /\ vPc = "done"
    /\ vGiven = <<>>

InitSpecValidate ==
    /\ vIsList \in BOOLEAN
    /\ vBatchSize \in 1..MaxQueued
    /\ vMeta \in MetaSeqs(vIsList)
    /\ vDf = [i \in DOMAIN vMeta |-> RowOf(vMeta[i])]
    /\ vResults = <<>>
    /\ vB = 0
    /\ vPc = "batching"
    /\ vGiven = [i \in DOMAIN vMeta |-> NotAsked]
    /\ mA = EmptyDict
    /\ mB = EmptyDict
    /\ mRes = [r \in Runs |-> NotRun]
    /\ pPages = 0
    /\ pSize = MAX_PAGES_PER_REQ
    /\ pStart = 0
    /\ pChunks = <<>>
    /\ pPc = "begin"
    /\ resume = TRUE
    /\ pageCount = [d \in Docs |-> 0]
    /\ run = 0
    /\ phase = "idle"
    /\ index = {}
    /\ todo = {}
    /\ dpc = [d \in Docs |-> "idle"]
    /\ dres = [d \in Docs |-> NoResult]
    /\ docChunks = [d \in Docs |-> <<>>]
    /\ wst = [d \in Docs |-> <<>>]
    /\ wout = [d \in Docs |-> <<>>]
    /\ chunkResults = [d \in Docs |-> <<>>]
    /\ folded = [d \in Docs |-> <<>>]
    /\ sem = 0
    /\ compQ = <<>>
    /\ ppc = "wait"
    /\ cur = NoDoc
    /\ consumed = {}
    /\ csvExists = FALSE
    /\ csvRows = <<>>
    /\ pqExists = FALSE
    /\ pqCols = {}
    /\ pqRows = <<>>
    /\ pqWriter = FALSE
    /\ touched = [d \in Docs |-> {}]
    /\ csvAtStart = <<>>
    /\ everPersisted = {}
    /\ abortedBy = NoDoc
    /\ persistFailed = NoDoc
    /\ gK = 1
    /\ gHeld = 0
    /\ gWin = [w \in GateWindows |-> NewWindow]
    /\ gLock = NoWindow
    /\ lClock = 0
    /\ lLast = 0
    /\ lLock = NoCaller
    /\ lQueue = <<>>
    /\ lPc = [c \in LimCallers |-> "idle"]
    /\ lWake = [c \in LimCallers |-> 0]
    /\ lArrivals = <<>>
    /\ lGrants = <<>>
    /\ rReq = [q \in Requests |-> NewRequest]
    /\ rWin = "pending"
    /\ rRow = {}
    /\ sExists = FALSE
    /\ sFileSchema = NoSchema
    /\ sSelfSchema = NoSchema
    /\ sWriter = FALSE
    /\ sRows = <<>>
    /\ sAppends = 0
    /\ sEstablished = NoSchema
    /\ sLast = NoAppend
    /\ sBefore = <<>>
    /\ cExists = FALSE
    /\ cLines = <<>>
    /\ cAppends = 0
    /\ cLast = NoCsvAppend
    /\ cIndex = {}
    /\ cLoad = "off"
    /\ cDone = {}
    /\ kN = 0
    /\ kCfg = DefaultStripConfig
    /\ kPlan = NoPlan
    /\ kPc = "ready"

SpecMerge == InitSpecMerge /\ [][NextMerge]_vars

SpecPlan == InitSpecPlan /\ [][NextPlan]_vars

Spec == Init /\ [][Next]_vars

NextGate ==
    \/ \E w \in GateWindows : GateAcquire(w) /\ UNCHANGED othersGate
    \/ \E w \in GateWindows : GateLimiterEnter(w) /\ UNCHANGED othersGate
    \/ \E w \in GateWindows : GateDispatch(w) /\ UNCHANGED othersGate
    \/ \E w \in GateWindows : \E raises \in BOOLEAN :
          GateRequestEnds(w, raises) /\ UNCHANGED othersGate
    \/ \E w \in GateWindows : GateExit(w) /\ UNCHANGED othersGate
    \/ \E w \in GateWindows : GateCancel(w) /\ UNCHANGED othersGate

SpecGate == InitSpecGate /\ [][NextGate]_vars

\* a step of the run other than an interrupt
GateStep ==
    \E w \in GateWindows :
        \/ GateAcquire(w)
        \/ GateLimiterEnter(w)
        \/ GateDispatch(w)
        \/ \E raises \in BOOLEAN : GateRequestEnds(w, raises)
        \/ GateExit(w)

\* The same run under the scheduling the event loop and the worker threads
\* give: while some coroutine is ready, some limiter sleep is over or some
\* request attempt can end, one of them does. An interrupt (GateCancel) may
\* happen but is never forced.
GateFairness == WF_vars(GateStep /\ UNCHANGED othersGate)

SpecGateFair == InitSpecGate /\ [][NextGate]_vars /\ GateFairness

NextLimiter ==
    \/ LimTick /\ UNCHANGED othersLim
    \/ \E c \in LimCallers : LimArrive(c) /\ UNCHANGED othersLim
    \/ \E c \in LimCallers : LimCompute(c) /\ UNCHANGED othersLim
    \/ \E c \in LimCallers : LimWake(c) /\ UNCHANGED othersLim
    \/ \E c \in LimCallers : LimStamp(c) /\ UNCHANGED othersLim

SpecLimiter == InitSpecLimiter /\ [][NextLimiter]_vars

NextRetry ==
    \/ \E q \in Requests : RetryGrant(q) /\ UNCHANGED othersRetry
    \/ \E q \in Requests : \E out \in ServiceErrors \cup {ServiceOk} :
          RetryAttempt(q, out) /\ UNCHANGED othersRetry
    \/ RetryWindowFails /\ UNCHANGED othersRetry
    \/ RetryWindowReturns /\ UNCHANGED othersRetry

SpecRetry == InitSpecRetry /\ [][NextRetry]_vars

NextSchema ==
    \/ \E row \in SchemaRows : SchemaAppend(row) /\ UNCHANGED othersSchema
    \/ SchemaRestart /\ UNCHANGED othersSchema

NextCsv ==
    \/ \E row \in CsvRecords : CsvAppend(row) /\ UNCHANGED othersCsvfile
    \/ CsvLoad /\ UNCHANGED othersCsvfile
    \/ \E rewritten \in BOOLEAN : CsvLoadFails(rewritten) /\ UNCHANGED othersCsvfile
    \/ CsvLoadAbsent /\ UNCHANGED othersCsvfile
    \/ CsvStartOverwrite /\ UNCHANGED othersCsvfile

SpecCsv == InitSpecCsv /\ [][NextCsv]_vars

SpecSchema == InitSpecSchema /\ [][NextSchema]_vars

NextStrip ==
    \E outline_cuts \in OutlineCuts(kN, kCfg) : \E layout_cuts \in LayoutCuts(kN, kCfg) :
        StripBuildPlan(outline_cuts, layout_cuts) /\ UNCHANGED othersStrip

SpecStrip == InitSpecStrip /\ [][NextStrip]_vars

NextValidate ==
    \/ \E failed \in BOOLEAN :
          \E answers \in [1..(BatchEnd(vB) - BatchStart(vB)) -> ChainResults] :
              ValBatch(failed, answers) /\ UNCHANGED othersVal
    \/ ValApply /\ UNCHANGED othersVal

SpecValidate == InitSpecValidate /\ [][NextValidate]_vars

----------------------------------------------------------------------------
(* Claims about the window planner (checked under SpecPlan) *)

PlanFinished == pPc \in {"none", "single", "done"}

PagesOf(cs) == UNION {Range(cs[i]) : i \in DOMAIN cs}

\* every chunk is a non-empty run of consecutive n, the first starts at
\* page 0, each next one starts right after the previous one ends (ordered by
\* start, disjoint, gap-free), and together they are exactly [0, n)
IsPartition(cs, n) ==
    /\ \A i \in DOMAIN cs :
          /\ Len(cs[i]) >= 1
          /\ \A j \in 1..(Len(cs[i]) - 1) : cs[i][j + 1] = cs[i][j] + 1
    /\ \A i \in DOMAIN cs : \A j \in DOMAIN cs :
          i < j => cs[i][1] < cs[j][1]
    /\ \A i \in DOMAIN cs : \A j \in DOMAIN cs :
          i # j => Range(cs[i]) \cap Range(cs[j]) = {}
    /\ \A i \in 1..(Len(cs) - 1) :
          cs[i + 1][1] = cs[i][Len(cs[i])] + 1
    /\ PagesOf(cs) = 0..(n - 1)

\* C1 (as amended): for every page_count >= 0 and window size >= 1 the planned
\* windows are ordered by start, pairwise disjoint, gap-free and cover exactly
\* [0, page_count); 20 pages with size 8 give [0,8), [8,16), [16,20); a page
\* count between 1 and the window size gives exactly one window covering the
\* whole document, and a page count of 0 gives no window at all.
C1_WindowsPartition ==
    PlanFinished =>
        /\ IsPartition(pChunks, pPages)
        /\ (pPages = 20 /\ pSize = 8) =>
              pChunks = <<PyRange(0, 8), PyRange(8, 16), PyRange(16, 20)>>
        /\ (pPages >= 1 /\ pPages <= pSize) => pChunks = <<PyRange(0, pPages)>>
        /\ pPages = 0 => pChunks = <<>>

\* C1 witness: a 20-page document planned with window size 8 into 3 windows
C1_Witness ==
    /\ pPc = "done"
    /\ pPages = 20
    /\ pSize = 8
    /\ Len(pChunks) = 3

\* C1 as originally stated: the partition property, and every page_count <=
\* window size (page_count = 0 included) yields exactly one window.
C1_OriginalClaim ==
    PlanFinished =>
        /\ IsPartition(pChunks, pPages)
        /\ (pPages = 20 /\ pSize = 8) =>
              pChunks = <<PyRange(0, 8), PyRange(8, 16), PyRange(16, 20)>>
        /\ pPages <= pSize => Len(pChunks) = 1

----------------------------------------------------------------------------
(* Claims about the merge (checked under SpecMerge) *)

\* non-empty scalar: not null, not the empty string, not whitespace only
NonEmptyScalar(x) == IsScalar(x) /\ ~IsEmpty(NormalizeStr(x))

Carriers(s, k) == {i \in DOMAIN s : k \in DOMAIN s[i]}

AllScalar(s, k) == \A i \in Carriers(s, k) : IsScalar(s[i][k])

HasNonEmpty(s, k) == \E i \in Carriers(s, k) : NonEmptyScalar(s[i][k])

FirstNonEmpty(s, k) ==
    LET i == CHOOSE i \in Carriers(s, k) :
                 /\ NonEmptyScalar(s[i][k])
                 /\ \A j \in Carriers(s, k) : NonEmptyScalar(s[j][k]) => i <= j
    IN  s[i][k]

\* first occurrence of each element, compared by value
FirstOccurrences(l) ==
    LET keep == {i \in DOMAIN l : \A j \in 1..(i - 1) : l[j] # l[i]}
        F[i \in 0..Len(l)] ==
            IF i = 0 THEN <<>>
            ELSE IF i \in keep THEN Append(F[i - 1], l[i]) ELSE F[i - 1]
    IN  F[Len(l)]

\* C3: the merge is idempotent, merge([A, B]) = merge([A, B, B]) for any
\* partial records A and B.
C3_MergeIdempotent ==
    (mRes["AB"] # NotRun /\ mRes["ABB"] # NotRun) => mRes["AB"] = mRes["ABB"]

\* C4 (as amended): for a key whose values are all scalars the merged value
\* is the earliest non-empty value in fold order with surrounding whitespace
\* trimmed; it is left untrimmed only when exactly one folded record carries
\* the key.
C4_ScalarPrecedence ==
    \A r \in Runs : mRes[r] # NotRun =>
        \A k \in MergeKeys :
            LET s == RunInput(r)
            IN  (AllScalar(s, k) /\ HasNonEmpty(s, k)) =>
                    mRes[r].v[k] =
                        IF Cardinality(Carriers(s, k)) = 1
                        THEN FirstNonEmpty(s, k)
                        ELSE NormalizeStr(FirstNonEmpty(s, k))

\* C4 witness: A sets x to " a", B sets x to "b", and merge([A, B]) keeps "a"
C4_Witness ==
    /\ mRes["AB"] # NotRun
    /\ "x" \in DOMAIN mA /\ "x" \in DOMAIN mB
    /\ mA["x"] = PyStr(<<" ", "a">>)
    /\ mB["x"] = PyStr(<<"b">>)
    /\ mRes["AB"].v["x"] = PyStr(<<"a">>)

\* C4 as originally stated: the merged value is the earliest non-empty value
\* itself (the accumulator's value is kept, the incoming value is taken).
C4_OriginalClaim ==
    \A r \in Runs : mRes[r] # NotRun =>
        \A k \in MergeKeys :
            LET s == RunInput(r)
            IN  (AllScalar(s, k) /\ HasNonEmpty(s, k)) =>
                    mRes[r].v[k] = FirstNonEmpty(s, k)

\* C5: when the accumulator's value and the incoming value of a key are both
\* lists, the merged value is their concatenation with duplicates removed by
\* value equality, first occurrence kept.
C5_ListUnion ==
    mRes["AB"] # NotRun =>
        \A k \in DOMAIN mA \cap DOMAIN mB :
            (IsList(mA[k]) /\ IsList(mB[k])) =>
                mRes["AB"].v[k] = PyList(FirstOccurrences(mA[k].v \o mB[k].v))

\* C6 (as amended): when A and B both set the same scalar field to non-empty
\* values that still differ after surrounding whitespace is trimmed,
\* merge([A, B]) differs from merge([B, A]).
C6_OrderSensitive ==
    (mRes["AB"] # NotRun /\ mRes["BA"] # NotRun) =>
        ((\E k \in DOMAIN mA \cap DOMAIN mB :
              /\ NonEmptyScalar(mA[k])
              /\ NonEmptyScalar(mB[k])
              /\ NormalizeStr(mA[k]) # NormalizeStr(mB[k]))
          => mRes["AB"] # mRes["BA"])

\* C6 witness: x is "a" in A and "b" in B, both merges were run and they differ
C6_Witness ==
    /\ mRes["AB"] # NotRun /\ mRes["BA"] # NotRun
    /\ "x" \in DOMAIN mA /\ "x" \in DOMAIN mB
    /\ mA["x"] = PyStr(<<"a">>)
    /\ mB["x"] = PyStr(<<"b">>)
    /\ mRes["AB"].v["x"] = PyStr(<<"a">>)
    /\ mRes["BA"].v["x"] = PyStr(<<"b">>)

\* C6 as originally stated: any two different non-empty scalar values of the
\* same field make merge([A, B]) differ from merge([B, A]).
C6_OriginalClaim ==
    (mRes["AB"] # NotRun /\ mRes["BA"] # NotRun) =>
        ((\E k \in DOMAIN mA \cap DOMAIN mB :
              /\ NonEmptyScalar(mA[k])
              /\ NonEmptyScalar(mB[k])
              /\ mA[k] # mB[k])
          => mRes["AB"] # mRes["BA"])

----------------------------------------------------------------------------
(* Claims about the pipeline (checked under Spec) *)

MultiDone(d) == phase = "running" /\ dpc[d] = "done" /\ Len(docChunks[d]) >= 2

\* a window failed: run_all_payloads raised (retries exhausted), or it returned
\* no annotation at all (every request ended in a non-retryable error)
Failed(o) == o = Raised \/ o = Returned(EmptyDict)

\* the rows of the chunks that returned a dict, in ascending chunk order
RowsAscending(d) ==
    LET F[i \in 0..Len(wout[d])] ==
            IF i = 0 THEN <<>>
            ELSE IF wout[d][i] # Raised THEN Append(F[i - 1], wout[d][i].v)
            ELSE F[i - 1]
    IN  F[Len(wout[d])]

\* the rows of the chunks that did not fail, in ascending chunk order
RowsSuccessful(d) ==
    LET F[i \in 0..Len(wout[d])] ==
            IF i = 0 THEN <<>>
            ELSE IF ~Failed(wout[d][i]) THEN Append(F[i - 1], wout[d][i].v)
            ELSE F[i - 1]
    IN  F[Len(wout[d])]

\* C2: within one document the partial records are folded in ascending
\* window-start order whatever the completion order of the window tasks: the
\* starts handed to the merge are strictly ascending and the merged record is
\* the fold of the windows' records taken in page order.
C2_MergedInStartOrder ==
    \A d \in Docs : MultiDone(d) =>
        /\ \A i \in 1..(Len(folded[d]) - 1) : folded[d][i] < folded[d][i + 1]
        /\ Len(folded[d]) = Len(chunkResults[d])
        /\ dres[d] = ResRow(AttachSource(MergeDicts(RowsAscending(d)), d))

\* C2 witness: the second window finished first, with a different Journal
C2_Witness ==
    \E d \in Docs :
        /\ MultiDone(d)
        /\ Len(chunkResults[d]) = 2
        /\ chunkResults[d][1].start > chunkResults[d][2].start
        /\ chunkResults[d][1].row = JournalDict(<<"N">>)
        /\ chunkResults[d][2].row = JournalDict(<<"7">>)
        /\ dres[d].v[JOURNAL] = PyStr(<<"7">>)

RowCount(rows, d) ==
    Cardinality({i \in DOMAIN rows : rows[i].src = CsvText(FileNameSha1(d).v)})

PqRowCount(d) ==
    Cardinality({i \in DOMAIN pqRows : pqRows[i][SRC] = CsvText(FileNameSha1(d).v)})

\* C7: resume idempotence: after two or more runs with resume enabled, however
\* the runs ended, the row sink and the columnar sink each hold exactly one
\* row for every document that was persisted (with a record that the row
\* sink's own clean-up keeps).
C7_ResumeIdempotent ==
    (resume /\ run >= 2 /\ phase \in {"ended", "interrupted"}) =>
        \A d \in everPersisted : RowCount(csvRows, d) = 1 /\ PqRowCount(d) = 1

\* identities of the rows that the start-up clean-up of the row sink keeps:
\* the identity is present and the Journal cell is a non-numeric text
SurvivingIdentities(rows) ==
    {PyStr(rows[i].src.v) :
        i \in {j \in DOMAIN rows :
                 /\ rows[j].src.t = "text"
                 /\ rows[j].journal.t = "text"
                 /\ \E c \in DOMAIN Strip(rows[j].journal.v) :
                        Strip(rows[j].journal.v)[c] \notin Digits}}

Untouched(d) ==
    /\ d \notin todo
    /\ dpc[d] = "idle"
    /\ touched[d] = {}
    /\ docChunks[d] = <<>>

AllFailed(d) ==
    /\ Len(docChunks[d]) >= 1
    /\ \A w \in DOMAIN wout[d] : Failed(wout[d][w])

\* C9: a document whose every window failed yields no merged record, has no
\* row appended to either sink, and a resume run starting now would admit it.
C9_AllFailedNotPersisted ==
    \A d \in Docs :
        (phase = "running" /\ dpc[d] = "done" /\ AllFailed(d)) =>
            /\ dres[d].t # "row"
            /\ touched[d] \cap {"csv", "pq"} = {}
            /\ FileNameSha1(d) \notin IdentityColumn(DropEmptyRows(csvRows))

SomeNotAllFailed(d) ==
    /\ \E w \in DOMAIN wout[d] : Failed(wout[d][w])
    /\ \E w \in DOMAIN wout[d] : ~Failed(wout[d][w])

\* C10: a failed window does not abort its document: when some but not all
\* windows failed, every window was still called and the document yields a
\* merged record folded from exactly the successful windows.
C10_PartialFailure ==
    \A d \in Docs :
        (MultiDone(d) /\ SomeNotAllFailed(d)) =>
            /\ \A w \in DOMAIN wst[d] : wst[d][w] = "done"
            /\ dres[d] = ResRow(AttachSource(MergeDicts(RowsSuccessful(d)), d))

\* C10 witness: the first window ran out of retries, the second one succeeded,
\* and the document's record is the second window's
C10_Witness ==
    \E d \in Docs :
        /\ MultiDone(d)
        /\ wout[d][1] = Raised
        /\ wout[d][2] = Returned(JournalDict(<<"N">>))
        /\ dres[d] = ResRow(AttachSource(JournalDict(<<"N">>), d))

\* C11: a document-level failure (the document cannot be page-counted or read,
\* or its only window failed) is confined to its document: the run is never
\* ended by the failure of a document's task, so every other admitted
\* document is still awaited and persisted.
C11_DocFailureConfined == abortedBy = NoDoc

----------------------------------------------------------------------------
(* Claims about the concurrency gate (checked under SpecGate) *)

HeldWindows == {w \in GateWindows : gWin[w].pc = "held"}

\* C12: for every configured K >= 1 the number of simultaneously acquired
\* gate slots never exceeds K, however many window calls compete.
C12_GateBound ==
    /\ gHeld >= 0
    /\ gHeld <= gK
    /\ Cardinality(HeldWindows) <= gK

\* C12 witness: K = 1, one window call holds the slot and another one waits
C12_Witness ==
    /\ gK = 1
    /\ gHeld = 1
    /\ \E w \in GateWindows : gWin[w].pc = "new"

\* C13: the number of external annotation requests in flight at any instant,
\* over all windows, never exceeds K.
C13_InFlightBound == InFlight <= gK

\* C14: a slot acquired for a window call is released on every exit path
\* (success, failure, cancellation): the held slots are exactly those of the
\* window calls in progress, so with no call in progress none is held.
C14_SlotReleased ==
    /\ gHeld = Cardinality(HeldWindows)
    /\ HeldWindows = {} => gHeld = 0

\* C14 witness: one window call failed, another one was cancelled while it
\* held a slot (its requests are still running), and no slot is held
C14_Witness ==
    /\ gHeld = 0
    /\ \E w \in GateWindows : gWin[w].pc = "failed"
    /\ \E w \in GateWindows : gWin[w].pc = "cancelled" /\ gWin[w].inFlight > 0

----------------------------------------------------------------------------
(* Claims about the rate limiter (checked under SpecLimiter) *)

\* C15: any two consecutive grants of wait() are at least the configured
\* interval apart, for any number of concurrent waiters and with no burst
\* after an idle period.
C15_GrantsSpaced ==
    \A i \in 1..(Len(lGrants) - 1) : lGrants[i + 1].at - lGrants[i].at >= LimInterval

\* C15 witness: three grants, the second one after the limiter sat idle for
\* longer than an interval, and the third one still a full interval later
C15_Witness ==
    /\ Len(lGrants) = 3
    /\ lGrants[2].at - lGrants[1].at > LimInterval
    /\ lGrants[3].at - lGrants[2].at = LimInterval

\* C16: grants are issued in the order in which the callers called wait().
C16_GrantsFifo ==
    /\ Len(lGrants) <= Len(lArrivals)
    /\ \A i \in 1..Len(lGrants) : lGrants[i].who = lArrivals[i]

\* C16 witness: three callers arrived in the order 2, 3, 1 while the lock was
\* held, and all three were granted
C16_Witness ==
    /\ lArrivals = <<2, 3, 1>>
    /\ Len(lGrants) = 3
    /\ lGrants[3].who = 1

----------------------------------------------------------------------------
(* Claims about retry and backoff (checked under SpecRetry) *)

\* C17: a request that fails with a retryable error n times (n below the
\* maximum attempt count) and then succeeds is attempted exactly n + 1 times,
\* and a request that fails with a permanent error is attempted exactly once:
\* every retryable failure before the last allowed attempt is followed by
\* another attempt, and a success or a permanent error ends the request.
C17_AttemptCount ==
    \A q \in Requests :
        LET h == rReq[q].hist
        IN  /\ rReq[q].att = Len(h)
            /\ \A i \in 1..Len(h) :
                  /\ h[i] = "ok" => (i = Len(h) /\ rReq[q].st = "ok")
                  /\ h[i] = "permanent" => (i = Len(h) /\ rReq[q].st = "none")
                  /\ (h[i] = "retryable" /\ i < MaxAttemptNumber) =>
                        (i < Len(h) \/ rReq[q].st = "backoff")
            /\ (Len(h) >= 1 /\ h[1] = "permanent") => rReq[q].att = 1

\* C17 witness: two retryable failures, then success: three attempts
C17_Witness ==
    \E q \in Requests :
        /\ rReq[q].hist = <<"retryable", "retryable", "ok">>
        /\ rReq[q].att = 3
        /\ rReq[q].st = "ok"

NonDecreasing(d) == \A i \in 1..(Len(d) - 1) : d[i] <= d[i + 1]
StrictlyIncreasing(d) == \A i \in 1..(Len(d) - 1) : d[i] < d[i + 1]
WithinBounds(d) == \A i \in 1..Len(d) : WaitMin <= d[i] /\ d[i] <= WaitMax

\* C18 (as amended): the backoff delays of one request never decrease from
\* one retry to the next and every delay lies between the configured floor
\* and ceiling; they are 4, 4, 4 and 8 seconds, so the first three are equal.
C18_DelaysBounded ==
    \A q \in Requests :
        LET d == rReq[q].delays
        IN  /\ NonDecreasing(d)
            /\ WithinBounds(d)
            /\ d = SubSeq(<<4, 4, 4, 8>>, 1, Len(d))

\* C18 witness: a request that slept before each of its four retries
C18_Witness == \E q \in Requests : Len(rReq[q].delays) = MaxAttemptNumber - 1

\* C18 as originally stated: the delays are strictly increasing and bounded.
C18_OriginalClaim ==
    \A q \in Requests :
        StrictlyIncreasing(rReq[q].delays) /\ WithinBounds(rReq[q].delays)

\* C19: a request is attempted at most 5 times; when every attempt failed
\* with a retryable error retrying stops and the failure is propagated, and
\* the window is then a failure, never a success.
C19_AttemptsBounded ==
    /\ \A q \in Requests :
          /\ rReq[q].att <= MaxAttemptNumber
          /\ (rReq[q].att = MaxAttemptNumber
                /\ \A i \in 1..MaxAttemptNumber : rReq[q].hist[i] = "retryable")
             => rReq[q].st = "raised"
    /\ (\E q \in Requests : rReq[q].st = "raised") => rWin # "success"
    /\ rWin = "failure" => \E q \in Requests : rReq[q].st = "raised"

\* C19 witness: a request failed five times and its window is a failure
C19_Witness ==
    /\ rWin = "failure"
    /\ \E q \in Requests :
          /\ rReq[q].att = MaxAttemptNumber
          /\ rReq[q].st = "raised"

----------------------------------------------------------------------------
(* Claims about the columnar sink's schema (checked under SpecSchema) *)

\* a cell fits a column type: it is null, or a value of that type
CellFits(cell, type) == cell.t = "null" \/ (type # "null" /\ TypeOf(cell) = type)

\* C20: once the columnar sink's schema is established no later append changes
\* it: the file's column set and column types stay those first established,
\* every row in the file has exactly those columns, a row that lacks columns
\* of the schema is written with nulls in them, and a row with keys outside
\* the schema is written without those keys.
C20_SchemaStable ==
    /\ sExists => (sFileSchema = sEstablished /\ sEstablished # NoSchema)
    /\ sWriter => sSelfSchema = sEstablished
    /\ \A i \in DOMAIN sRows :
          /\ DOMAIN sRows[i] = DOMAIN sEstablished.cols
          /\ \A c \in DOMAIN sRows[i] : CellFits(sRows[i][c], sEstablished.cols[c])
    /\ sLast.t = "written" =>
          /\ DOMAIN sLast.written = DOMAIN sEstablished.cols
          /\ \A c \in DOMAIN sEstablished.cols \ DOMAIN sLast.row :
                sLast.written[c] = PqNull

\* C20 witness: the schema is identity and a string Journal; the last append
\* brought no Journal and an unknown key, and was written with a null Journal
\* and without that key, after an earlier row
C20_Witness ==
    /\ sExists
    /\ sEstablished = [t |-> "schema", cols |-> [c \in {SRC, JOURNAL} |-> "string"]]
    /\ sLast.t = "written"
    /\ DOMAIN sLast.row = {SRC, EXTRA}
    /\ sLast.written[JOURNAL] = PqNull
    /\ Len(sRows) = 2

\* columns of the schema for which the row brings a value that cannot be
\* cast to the column's type
Uncastable(row, schema) ==
    {c \in DOMAIN schema.cols \cap DOMAIN row :
        schema.cols[c] # "null" /\ ~CanCast(row[c], schema.cols[c])}

\* C21: an append whose value for some column cannot be cast to the column's
\* established type does not raise: the append succeeds and the row is written
\* with null in that column.
C21_CastFailureNulled ==
    (sLast.t # "noappend" /\ sEstablished # NoSchema) =>
        \A c \in Uncastable(sLast.row, sEstablished) :
            /\ sLast.t = "written"
            /\ sLast.written[c] = PqNull

Occurrences(rows, r) == Cardinality({i \in DOMAIN rows : rows[i] = r})

\* C22: the columnar sink is append-only across restarts: when a run starts
\* with a non-empty file, then after the run's first append and after every
\* later one every row that was in the file before the run is still in it.
C22_AppendOnly ==
    (sWriter /\ sBefore # <<>>) =>
        \A r \in Range(sBefore) : Occurrences(sRows, r) >= Occurrences(sBefore, r)

----------------------------------------------------------------------------
(* Claims about the two sinks in the run loop (checked under Spec) *)

IsPrefix(p, l) == Len(p) <= Len(l) /\ SubSeq(l, 1, Len(p)) = p

\* C23: loading the resume index at startup is read-only with respect to the
\* row sink: every row that was in the row sink when the run started is still
\* there, in place, during the run, whatever its identity and Journal are.
C23_LoadReadOnly ==
    phase = "running" => IsPrefix(csvAtStart, csvRows)

\* the ProcessedIndex that a resume run starting now would load, computed as
\* StartRun computes it
NextIndex == IdentityColumn(DropEmptyRows(csvRows))

\* C24: a document whose persistence failed on either sink, also when the
\* row-sink append had succeeded and the columnar append then failed, is not
\* marked processed: its identity is absent from the index that the next
\* resume run loads.
C24_FailedNotMarked ==
    (phase = "crashed" /\ persistFailed # NoDoc) =>
        FileNameSha1(persistFailed) \notin NextIndex

\* C25: a persistence failure for one document is scoped to that document:
\* the run does not stop at it.
C25_PersistFailureScoped == persistFailed # NoDoc => phase = "running"

CsvIdentities == {csvRows[i].src : i \in DOMAIN csvRows}
PqIdentities == {pqRows[i][SRC] : i \in DOMAIN pqRows}

\* C26: the two sinks hold the same logical rows: whenever no append is in
\* progress, after any runs, restarts and failures, the document identities
\* present in the row sink are those present in the columnar sink.
C26_SinksAgree ==
    (phase # "running" \/ ppc = "wait") => CsvIdentities = PqIdentities

\* the key under which _normalize_record of the flat utils module stores the
\* processing time; main.py never calls it
PROCESSED_AT == "__processed_at__"

\* C27: every merged record handed to the persister, from the single-window
\* path and from the multi-window path, carries both metadata fields, the
\* source identity and the processing time.
C27_MetadataAttached ==
    (phase = "running" /\ ppc \in {"csv", "pq"}) =>
        {SRC, PROCESSED_AT} \subseteq DOMAIN dres[cur].v

\* C28: a document whose page count is 0 is a no-op: no window is planned, no
\* external call is made, nothing is appended to either sink, and its task
\* ends with neither an error nor a record, so it is not marked processed.
C28_ZeroPagesNoOp ==
    \A d \in Docs :
        (phase = "running" /\ pageCount[d] = 0 /\ "counted" \in touched[d]) =>
            /\ docChunks[d] = <<>>
            /\ touched[d] \cap {"planned", "called", "csv", "pq"} = {}
            /\ dres[d] = ResNone
            /\ cur # d
            /\ CsvText(FileNameSha1(d).v) \notin CsvIdentities \cup PqIdentities
            /\ FileNameSha1(d) \notin NextIndex

\* C28 witness: a document without pages has been counted and awaited, and
\* the run went on to append another document's record to both sinks
C28_Witness ==
    /\ phase = "running"
    /\ \E d \in Docs :
          /\ pageCount[d] = 0
          /\ "counted" \in touched[d]
          /\ d \in consumed
    /\ \E d \in Docs : {"csv", "pq"} \subseteq touched[d]

----------------------------------------------------------------------------
(* Claims about the row sink's file (checked under SpecCsv) *)

HeaderCount == Cardinality({i \in DOMAIN cLines : cLines[i].t = "header"})

----------------------------------------------------------------------------
(* Claims about the writer loop (checked under Spec) *)

\* C30: sink writes are serialized by one writer: at any time at most one
\* document is between the start of its row-sink append and the end of its
\* columnar append, and a document's row-sink append is complete before its
\* columnar append starts, also while other records are ready and waiting.
C30_WritesSerialized ==
    phase = "running" =>
        /\ ppc = "wait" <=> cur = NoDoc
        /\ \A d \in Docs : "pq" \in touched[d] => "csv" \in touched[d]
        /\ \A d \in Docs \ {cur} : "csv" \in touched[d] => "pq" \in touched[d]
        /\ ppc = "csv" => touched[cur] \cap {"csv", "pq"} = {}
        /\ ppc = "pq" => ("csv" \in touched[cur] /\ "pq" \notin touched[cur])

\* C30 witness: a record's row-sink append is done and its columnar append
\* has not started, while another document's record is ready and waits
C30_Witness ==
    /\ phase = "running"
    /\ ppc = "pq"
    /\ compQ # <<>>
    /\ dres[Head(compQ)].t = "row"

----------------------------------------------------------------------------
(* Claims about the protocol of a request (checked under SpecRetry and      *)
(* SpecGate)                                                                *)

\* C31: every attempt dispatched to the annotation service, the retry
\* attempts of a request included, is preceded by its own grant of the rate
\* limiter, so that any two dispatches are an interval apart: no request has
\* made more attempts than it obtained grants.
C31_AttemptsGranted == \A q \in Requests : rReq[q].att <= rReq[q].grants

\* C32: for every request the steps are slot acquired, then grant, then the
\* request issued, and the slot stays held until the window's call with all
\* its requests has finished: a request of a window call that was not
\* cancelled waits for the rate limiter or runs only while its window holds
\* its slot.
C32_ProtocolOrder ==
    \A w \in GateWindows :
        (gWin[w].pc # "cancelled" /\ gWin[w].atLimiter + gWin[w].inFlight > 0) =>
            gWin[w].pc = "held"

----------------------------------------------------------------------------
(* Further claims about the merge (checked under SpecMerge) *)

Shape(x) == IF IsScalar(x) THEN "scalar" ELSE x.t

Mismatched(a, b) == Shape(a) # Shape(b)

\* C33 (as amended): when the accumulator's value and the incoming value of a
\* key have different shapes (scalar, list, mapping), the merge keeps the
\* accumulator's value with surrounding whitespace trimmed, unless that value
\* is empty (null, empty or whitespace-only string, empty list, empty
\* mapping), in which case it takes the incoming value, trimmed.
C33_MismatchedShapes ==
    mRes["AB"] # NotRun =>
        \A k \in DOMAIN mA \cap DOMAIN mB :
            Mismatched(mA[k], mB[k]) =>
                mRes["AB"].v[k] =
                    IF IsEmpty(NormalizeStr(mA[k]))
                    THEN NormalizeStr(mB[k])
                    ELSE NormalizeStr(mA[k])

\* C33 witness: A sets x to " a", B sets x to the list ["b"], and
\* merge([A, B]) keeps "a"
C33_Witness ==
    /\ mRes["AB"] # NotRun
    /\ "x" \in DOMAIN mA /\ "x" \in DOMAIN mB
    /\ mA["x"] = PyStr(<<" ", "a">>)
    /\ mB["x"] = PyList(<<PyStr(<<"b">>)>>)
    /\ mRes["AB"].v["x"] = PyStr(<<"a">>)

\* C33 as originally stated: the accumulator's value itself is kept, and the
\* incoming value itself is taken when the accumulator's value is empty.
C33_OriginalClaim ==
    mRes["AB"] # NotRun =>
        \A k \in DOMAIN mA \cap DOMAIN mB :
            Mismatched(mA[k], mB[k]) =>
                mRes["AB"].v[k] =
                    IF IsEmpty(NormalizeStr(mA[k])) THEN mB[k] ELSE mA[k]

TheCarrier(s, k) == s[CHOOSE i \in Carriers(s, k) : TRUE][k]

\* keys that exactly one of two dicts has, and the value that dict gives
OnlyOne(a, b) == (DOMAIN a \ DOMAIN b) \cup (DOMAIN b \ DOMAIN a)
ValueOfOnly(a, b, j) == IF j \in DOMAIN a THEN a[j] ELSE b[j]

\* C34: the key set of a merged record is the union of the key sets of the
\* folded records, also inside a nested mapping that both records carry under
\* the same key; no key is dropped or invented, and a key that only one
\* folded record has keeps that record's value as it is.
C34_KeyUnion ==
    \A r \in Runs : mRes[r] # NotRun =>
        LET s == RunInput(r)
            res == mRes[r].v
        IN  /\ DOMAIN res = DOMAIN mA \cup DOMAIN mB
            /\ \A k \in DOMAIN res :
                  Cardinality(Carriers(s, k)) = 1 => res[k] = TheCarrier(s, k)
            /\ \A k \in DOMAIN mA \cap DOMAIN mB :
                  (IsMapping(mA[k]) /\ IsMapping(mB[k])) =>
                      /\ IsMapping(res[k])
                      /\ DOMAIN res[k].v = DOMAIN mA[k].v \cup DOMAIN mB[k].v
                      /\ r # "ABB" =>
                            \A j \in OnlyOne(mA[k].v, mB[k].v) :
                                res[k].v[j] = ValueOfOnly(mA[k].v, mB[k].v, j)

\* C34 witness: A has x only at the top and k only inside x, B has y only at
\* the top and j only inside x; merge([A, B]) has all four, the values of y
\* and j as B gave them
C34_Witness ==
    /\ mRes["AB"] # NotRun
    /\ DOMAIN mA = {"x"} /\ DOMAIN mB = {"x", "y"}
    /\ mA["x"] = PyMap([k \in {"k"} |-> PyStr(<<" ", "a">>)])
    /\ mB["x"] = PyMap([k \in {"j"} |-> PyStr(<<"b", " ">>)])
    /\ DOMAIN mRes["AB"].v = {"x", "y"}
    /\ DOMAIN mRes["AB"].v["x"].v = {"j", "k"}
    /\ mRes["AB"].v["x"].v["j"] = PyStr(<<"b", " ">>)
    /\ mRes["AB"].v["y"] = mB["y"]

\* C35: when every request attempt ends and every limiter sleep ends, the
\* run terminates for every gate width K >= 1: every window call ends (done,
\* failed or cancelled), none of its requests is left waiting or running,
\* and from then on all K gate slots and the rate limiter's lock are free;
\* a call that holds a slot while its requests wait for the rate limiter
\* never blocks the others for ever.
GateQuiescent ==
    /\ \A w \in GateWindows :
          /\ gWin[w].pc \in {"done", "failed", "cancelled"}
          /\ gWin[w].atLimiter = 0
          /\ gWin[w].inFlight = 0
    /\ gHeld = 0
    /\ gLock = NoWindow

C35_RunTerminates == <>[]GateQuiescent

\* the run has ended with calls that succeeded and failed behind one slot
C35_Witness ==
    /\ GateQuiescent
    /\ gK = 1
    /\ \E w \in GateWindows : gWin[w].pc = "done"
    /\ \E w \in GateWindows : gWin[w].pc = "failed"

\* C36: a window call is a failure exactly through a request that re-raised
\* after its last attempt, and then nothing of the window reaches the row,
\* whatever the other requests answered or answer later; a request that
\* ended with a non-retryable error only leaves its own annotation out: the
\* window succeeds with exactly the annotations of the requests that were
\* answered.
C36_WindowOutcome ==
    /\ rWin = "failure" =>
          /\ \E q \in Requests :
                rReq[q].st = "raised" /\ rReq[q].att = MaxAttemptNumber
          /\ rRow = {}
    /\ rWin = "success" =>
          /\ \A q \in Requests : rReq[q].st \in {"ok", "none"}
          /\ rRow = {q \in Requests : rReq[q].st = "ok"}
    /\ (\A q \in Requests : rReq[q].st \in {"ok", "none"}) => rWin # "failure"

\* a window succeeded although one request ended with a non-retryable error
C36_Witness ==
    /\ rWin = "success"
    /\ \E q \in Requests : rReq[q].st = "none" /\ rReq[q].hist[rReq[q].att] = "permanent"
    /\ \E q \in Requests : rReq[q].st = "ok"

\* C37: when reading the row sink for the resume index fails, load returns
\* the empty set and does not raise: the run goes on with every document of
\* the input directory in todo, also the documents whose rows the row sink
\* already holds, so that these are processed and appended again.
C37_FailedLoadSkipsNothing ==
    cLoad = "failed" => (cIndex = {} /\ CsvTodo = CsvDocs)

\* rows of document d in the row sink that a load would keep
KeptRowsOf(d) ==
    {i \in DOMAIN CleanedLines(cLines) :
        /\ CleanedLines(cLines)[i].t = "row"
        /\ CleanedLines(cLines)[i].cells[ColumnAt(Head(cLines), SRC)] = CsvText(d)}

\* the row sink held a row of a document that a load would have kept, the
\* load failed, and the run appended the document again
C37_Witness ==
    /\ cLoad = "failed"
    /\ \E d \in cDone : Cardinality(KeptRowsOf(d)) >= 2

----------------------------------------------------------------------------
(* Claims about the section stripper's plan (checked under SpecStrip) *)

\* C38: for any detected cuts and any configuration the plan's keep_pages is
\* sorted and duplicate-free, lies in [0, n) and holds every page index below
\* min(keep_first_n_pages_always, n); every page with a redaction is in
\* keep_pages.
C38_PlanWellFormed ==
    kPc = "planned" =>
        LET kp == kPlan.keep_pages
        IN  /\ \A i \in 1..(Len(kp) - 1) : kp[i] < kp[i + 1]
            /\ \A i \in DOMAIN kp : 0 <= kp[i] /\ kp[i] < kN
            /\ \A p \in 0..(Min2(kCfg.keep_first_n_pages_always, kN) - 1) :
                  \E i \in DOMAIN kp : kp[i] = p
            /\ \A p \in DOMAIN kPlan.redactions : \E i \in DOMAIN kp : kp[i] = p

\* every page was cut away, the first page was put back by the safety rule,
\* and it carries redactions
C38_Witness ==
    /\ kPc = "planned"
    /\ kN = 2
    /\ kCfg.keep_first_n_pages_always = 1
    /\ kPlan.keep_pages = <<0>>
    /\ 0 \in DOMAIN kPlan.redactions
    /\ kPlan.redactions[0] = 2

----------------------------------------------------------------------------
(* Claims about the batched validation pass (checked under SpecValidate) *)

\* what the claim lets the pass do to queued row i, given the answer that the
\* chain gave for input i
ExpectedRow(i) ==
    LET given == vGiven[i]
        meta == vMeta[i]
    IN  IF given \in {BatchFailed, ResultNone, NotAsked} THEN RowOf(meta)
        ELSE IF vIsList
        THEN IF /\ IsList(given.supported)
                /\ Len(given.supported.v) = Len(meta.values.v)
                /\ Len(meta.sentences.v) = Len(meta.values.v)
             THEN [value |-> ListOrNone(FilterSupported(meta.values.v, given.supported.v)),
                   sentence |-> meta.sentences]
             ELSE RowOf(meta)
        ELSE ApplyLLMResult(RowOf(meta), FALSE, meta.values, meta.sentences, given)

\* C39: for every batch size and any pattern of failing batches the i-th
\* result is the answer to the i-th queued input and is applied to the i-th
\* queued row; a row of a failed batch is left unchanged; a list-valued field
\* is changed only when values, sentences and verdicts have equal lengths, and
\* then holds exactly the values judged supported, in their order.
C39_ResultsAligned ==
    /\ vPc # "batching" =>
          /\ Len(vResults) = Len(vMeta)
          /\ \A i \in DOMAIN vMeta :
                vResults[i] = IF vGiven[i] = BatchFailed THEN ResultNone ELSE vGiven[i]
    /\ vPc = "done" => \A i \in DOMAIN vMeta : vDf[i] = ExpectedRow(i)

\* three queued rows of a list field in batches of one: the first batch
\* failed, the second judged one of two values unsupported, the third
\* answered with too few verdicts
C39_Witness ==
    /\ vPc = "done"
    /\ vIsList
    /\ vBatchSize = 1
    /\ Len(vMeta) = 3
    /\ vGiven[1] = BatchFailed
    /\ vMeta[2].values = PyList(<<"a", "b">>)
    /\ vGiven[2] = [t |-> "dict", supported |-> PyList(<<FALSE, TRUE>>)]
    /\ vDf[2].value = PyList(<<"b">>)
    /\ vMeta[3].values = PyList(<<"a", "b">>)
    /\ vGiven[3] = [t |-> "dict", supported |-> PyList(<<FALSE>>)]
    /\ vDf[3].value = PyList(<<"a", "b">>)
====
